---- MODULE Spec2Model ----
(***************************************************************************)
(* Model of scripts/python/sops/sops_wrapper.py: the change detector       *)
(* (_should_encrypt), the operation runner (_encrypt_file, _decrypt_file,  *)
(* _updatekeys_file), the batch commands built on them, the availability   *)
(* probe, the export to_act_format and the command line main().            *)
(*                                                                         *)
(* A file is a record [exists, data, mtime].  File contents are abstract   *)
(* byte strings:                                                           *)
(*   ""       a zero-byte file                                             *)
(*   "bad"    text that does not parse as YAML                             *)
(*   "undec"  bytes that are not valid UTF-8                               *)
(*   "y1","y2"  two different well-formed YAML documents                   *)
(*   "E1","E2"  what sops -e emits for y1, y2 (itself YAML)                *)
(* The external tool is opaque and fallible: every call draws its result   *)
(* (exit code, stdout, timeout, OSError) from a set of possible runs.      *)
(***************************************************************************)
EXTENDS Integers, Sequences, FiniteSets, TLC

\* ---------------------------------------------------------------- bounds
NFiles == 2      \* file pairs in the directory tree
MaxTime == 2     \* the clock stops ticking here
MaxCalls == 2    \* direct calls of the detector and the runner

Stems == 1..NFiles
Markers == {"dec", "enc"}
\* a path <<s, m>> stands for  <dir>/<s>.<m>.yaml
Paths == Stems \X Markers

Plain == {"y1", "y2"}
Cipher == {"E1", "E2"}

Absent == [exists |-> FALSE, data |-> "", mtime |-> 0]
Written(d, t) == [exists |-> TRUE, data |-> d, mtime |-> t]

\* ------------------------------------------------------- the external tool
SopsEncrypt(d) == IF d = "y1" THEN "E1" ELSE "E2"
SopsDecrypt(d) == IF d = "E1" THEN "y1" ELSE "y2"

Exit(rc, out) == [kind |-> "exit", rc |-> rc, stdout |-> out]
Timeout == [kind |-> "timeout", rc |-> 1, stdout |-> ""]
OsError == [kind |-> "oserror", rc |-> 1, stdout |-> ""]

\* possible results of subprocess.run(["sops", ..., "-e", dec_file])
EncryptRuns(f) ==
    {Timeout, OsError, Exit(1, ""), Exit(0, "")}
      \cup (IF f.exists /\ f.data \in Plain THEN {Exit(0, SopsEncrypt(f.data))} ELSE {})

\* possible results of subprocess.run(["sops", ..., "-d", enc_file])
DecryptRuns(f) ==
    {Timeout, OsError, Exit(1, ""), Exit(0, ""), Exit(0, "bad")}
      \cup (IF f.exists /\ f.data \in Cipher THEN {Exit(0, SopsDecrypt(f.data))} ELSE {})

\* the run of a tool that works: it encrypts a plaintext document, decrypts
\* a ciphertext and exits non-zero on anything else
FixedEncryptRun(f) ==
    IF f.exists /\ f.data \in Plain THEN Exit(0, SopsEncrypt(f.data)) ELSE Exit(1, "")
FixedDecryptRun(f) ==
    IF f.exists /\ f.data \in Cipher THEN Exit(0, SopsDecrypt(f.data)) ELSE Exit(1, "")

\* possible results of subprocess.run(["sops", "updatekeys", "--yes", enc_file]);
\* "wiped" is an exit 0 that left the file empty, "removed" an exit 0 that
\* left no file
UpdatekeysRuns(f) ==
    {"timeout", "oserror", "nonzero"}
      \cup (IF f.exists /\ f.data \in Cipher THEN {"ok", "wiped", "removed"} ELSE {})

\* outcome of  open(path, "w") ; f.write(text): done, open raised (the file
\* is untouched), or the write raised after open truncated/created the file
WriteOutcomes == {"ok", "open_fail", "write_fail"}

AllUpdatekeysRuns == {"timeout", "oserror", "nonzero", "ok", "wiped", "removed"}

\* What can happen during one comparison decryption: mk = the scratch file
\* could be created, run = the tool run, w = the write of stdout to the
\* scratch file, unl = the scratch file could be unlinked.  A step that is
\* not reached has one value only.
CompareCases(f) ==
    {c \in [run : DecryptRuns(f), mk : BOOLEAN, w : WriteOutcomes, unl : BOOLEAN] :
        /\ ~c.mk => c.run = Timeout
        /\ ~(c.mk /\ c.run.kind = "exit" /\ c.run.rc = 0) => c.w = "ok"
        /\ c.w = "write_fail" => c.run.stdout # ""
        /\ ~(c.mk /\ c.run.kind = "exit" /\ c.run.rc = 0 /\ c.w = "ok") => c.unl}

\* What can happen during one _encrypt_file: the tool run, the write of the
\* ciphertext, and the updatekeys run k when update_keys is set.
EncryptCases(f, update_keys) ==
    {c \in [run : EncryptRuns(f), w : WriteOutcomes, k : AllUpdatekeysRuns] :
        /\ ~(c.run.kind = "exit" /\ c.run.rc = 0) => c.w = "ok"
        /\ c.w = "write_fail" => c.run.stdout # ""
        /\ ~(update_keys /\ c.run.kind = "exit" /\ c.run.rc = 0
               /\ c.run.stdout # "" /\ c.w = "ok") => c.k = "ok"}

\* What can happen during one _decrypt_file
DecryptCases(f) ==
    {c \in [run : DecryptRuns(f), w : WriteOutcomes] :
        /\ ~(c.run.kind = "exit" /\ c.run.rc = 0) => c.w = "ok"
        /\ c.w = "write_fail" => c.run.stdout # ""}

\* ------------------------------------------------------- content validator
\* a check that only asks whether the file is there
IsFileNotEmpty_ExistsOnly(f) == f.exists

\* _is_file_not_empty(file_path)
IsFileNotEmpty(f) == f.exists /\ f.data # ""

ParsesAsYaml(d) == d \in Plain \cup Cipher

\* the validator without the parse: every non-empty decodable file passes
IsValidYaml_NoParse(f) ==
    IF ~IsFileNotEmpty(f) THEN "False"
    ELSE IF f.data = "undec" THEN "raise"
    ELSE "True"

\* "True", "False", or "raise" (UnicodeDecodeError is not a yaml.YAMLError)
IsValidYaml(f) ==
    IF ~IsFileNotEmpty(f) THEN "False"
    ELSE IF f.data = "undec" THEN "raise"
    ELSE IF ParsesAsYaml(f.data) THEN "True"
    ELSE "False"

\* a digest that also covers the file's metadata
GetFileHash_Meta(f) ==
    IF ~f.exists THEN <<"None">> ELSE <<"sha256", f.data, f.mtime>>

\* SHA-256 taken as collision free on the contents of the model
GetFileHash(f) == IF ~f.exists THEN <<"None">> ELSE <<"sha256", f.data>>

\* --------------------------------------------------------- change detector
\* the comparison with >= in place of >
IsNewer_OrEqual(d, e) == d.mtime >= e.mtime

\* dec_file.stat().st_mtime > enc_file.stat().st_mtime
IsNewer(d, e) == d.mtime > e.mtime

\* _decrypt_to_temp: mk = NamedTemporaryFile succeeded, r = the tool run,
\* w = outcome of writing stdout to the scratch file.
\*   path   : a Path was returned (otherwise None)
\*   onDisk : the scratch file exists when the function returns
\*   tool   : subprocess.run was reached
DecryptToTemp(r, mk, w) ==
    IF ~mk THEN [path |-> FALSE, data |-> "", onDisk |-> FALSE, tool |-> FALSE]
    ELSE IF r.kind = "exit" /\ r.rc = 0 /\ w = "ok"
         THEN [path |-> TRUE, data |-> r.stdout, onDisk |-> TRUE, tool |-> TRUE]
         ELSE [path |-> FALSE, data |-> "", onDisk |-> TRUE, tool |-> TRUE]

Decision(b, why, tool, left) ==
    [raised |-> FALSE, decision |-> b, reason |-> why, tool |-> tool, left |-> left]

\* the detector with the emptiness rule tried before the existence rule
ShouldEncrypt_EmptyFirst(d, e, r, mk, w, unl) ==
    LET v == IsValidYaml(d) IN
    IF v = "raise"
      THEN [raised |-> TRUE, decision |-> FALSE, reason |-> "UnicodeDecodeError",
            tool |-> FALSE, left |-> 0]
    ELSE IF v = "False"
      THEN Decision(FALSE, "source file is empty or invalid YAML", FALSE, 0)
    ELSE IF ~IsFileNotEmpty(e)
      THEN Decision(TRUE, "encrypted file is empty", FALSE, 0)
    ELSE IF IsNewer(d, e)
      THEN Decision(TRUE, "source file is newer", FALSE, 0)
    ELSE LET t == DecryptToTemp(r, mk, w) IN
         IF t.path
           THEN IF ~unl
                  THEN Decision(TRUE, "unable to verify encrypted content", TRUE, 1)
                ELSE IF GetFileHash(d) # GetFileHash(Written(t.data, 0))
                  THEN Decision(TRUE, "content has changed", TRUE, 0)
                ELSE Decision(FALSE, "no changes detected", TRUE, 0)
           ELSE Decision(FALSE, "no changes detected", t.tool,
                         IF t.onDisk THEN 1 ELSE 0)

\* _should_encrypt(dec_file, enc_file): d, e are the two files as found on
\* disk; unl = temp_file.unlink() succeeded.  `left` counts the scratch files
\* of this call that are still on disk at return.
ShouldEncrypt(d, e, r, mk, w, unl) ==
    LET v == IsValidYaml(d) IN
    IF v = "raise"
      THEN [raised |-> TRUE, decision |-> FALSE, reason |-> "UnicodeDecodeError",
            tool |-> FALSE, left |-> 0]
    ELSE IF v = "False"
      THEN Decision(FALSE, "source file is empty or invalid YAML", FALSE, 0)
    ELSE IF ~e.exists
      THEN Decision(TRUE, "no encrypted file exists", FALSE, 0)
    ELSE IF ~IsFileNotEmpty(e)
      THEN Decision(TRUE, "encrypted file is empty", FALSE, 0)
    ELSE IF IsNewer(d, e)
      THEN Decision(TRUE, "source file is newer", FALSE, 0)
    ELSE LET t == DecryptToTemp(r, mk, w) IN
         IF t.path
           THEN IF ~unl
                  THEN Decision(TRUE, "unable to verify encrypted content", TRUE, 1)
                ELSE IF GetFileHash(d) # GetFileHash(Written(t.data, 0))
                  THEN Decision(TRUE, "content has changed", TRUE, 0)
                ELSE Decision(FALSE, "no changes detected", TRUE, 0)
           ELSE Decision(FALSE, "no changes detected", t.tool,
                         IF t.onDisk THEN 1 ELSE 0)

\* ---------------------------------------------------------- operation runner
\* the exception a tool run raises out of subprocess.run, if any
ExcOf(r) ==
    IF r.kind = "timeout" THEN "TimeoutExpired"
    ELSE IF r.kind = "oserror" THEN "OSError"
    ELSE "none"

\* handlers that catch the timeout only
RunnerCatches_TimeoutOnly(x) == x = "TimeoutExpired"

\* except subprocess.TimeoutExpired: ... except Exception: ...
RunnerCatches(x) == x \in {"TimeoutExpired", "OSError", "UnicodeDecodeError"}

\* a return of the runner, and an exception raised inside its try block: a
\* handler turns it into False, otherwise it leaves the function
\* rot tells whether _encrypt_file called _updatekeys_file, and its answer
Returns(b, f) ==
    [ret |-> b, raised |-> FALSE, exc |-> "none", rot |-> "none", fs |-> f]
Raises(x, f) ==
    IF RunnerCatches(x) THEN Returns(FALSE, f)
    ELSE [ret |-> FALSE, raised |-> TRUE, exc |-> x, rot |-> "none", fs |-> f]

\* the file system after an updatekeys run that exited 0
Rewritten(f, enc, k, t) ==
    IF k = "wiped" THEN [f EXCEPT ![enc] = Written("", t)]
    ELSE IF k = "removed" THEN [f EXCEPT ![enc] = Absent]
    ELSE [f EXCEPT ![enc].mtime = t]

\* a rotation that takes exit 0 for success
UpdatekeysFile_NoVerify(f, enc, k, t) ==
    IF k = "timeout" THEN Raises("TimeoutExpired", f)
    ELSE IF k = "oserror" THEN Raises("OSError", f)
    ELSE IF k = "nonzero" THEN Returns(FALSE, f)
    ELSE Returns(TRUE, Rewritten(f, enc, k, t))

\* _updatekeys_file(enc_file): k is the tool run, t the time of the rewrite
UpdatekeysFile(f, enc, k, t) ==
    IF k = "timeout" THEN Raises("TimeoutExpired", f)
    ELSE IF k = "oserror" THEN Raises("OSError", f)
    ELSE IF k = "nonzero" THEN Returns(FALSE, f)
    ELSE LET f1 == Rewritten(f, enc, k, t)
         IN Returns(IsFileNotEmpty(f1[enc]), f1)

\* the result of _encrypt_file after it called _updatekeys_file
AfterRotation(res, u) ==
    [res EXCEPT !.rot = IF ~u.raised /\ u.ret THEN "ok" ELSE "failed"]

\* an _encrypt_file that returns what the rotation returned
EncryptFile_StrictRotation(f, dec, enc, update_keys, r, w, k, t) ==
    IF r.kind # "exit" THEN Raises(ExcOf(r), f)
    ELSE IF r.rc # 0 THEN Returns(FALSE, f)
    ELSE IF w = "open_fail" THEN Raises("OSError", f)
    ELSE IF w = "write_fail"
      THEN Raises("OSError", [f EXCEPT ![enc] = Written("", t)])
    ELSE LET f1 == [f EXCEPT ![enc] = Written(r.stdout, t)] IN
         IF ~IsFileNotEmpty(f1[enc])
           THEN Returns(FALSE, [f1 EXCEPT ![enc] = Absent])
         ELSE IF update_keys
           THEN LET u == UpdatekeysFile(f1, enc, k, t) IN
                IF u.raised THEN AfterRotation(Raises(u.exc, u.fs), u)
                ELSE AfterRotation(Returns(u.ret, u.fs), u)
         ELSE Returns(TRUE, f1)

\* _encrypt_file(dec_file, enc_file, update_keys)
EncryptFile(f, dec, enc, update_keys, r, w, k, t) ==
    IF r.kind # "exit" THEN Raises(ExcOf(r), f)
    ELSE IF r.rc # 0 THEN Returns(FALSE, f)
    ELSE IF w = "open_fail" THEN Raises("OSError", f)
    ELSE IF w = "write_fail"
      THEN Raises("OSError", [f EXCEPT ![enc] = Written("", t)])
    ELSE LET f1 == [f EXCEPT ![enc] = Written(r.stdout, t)] IN
         IF ~IsFileNotEmpty(f1[enc])
           THEN Returns(FALSE, [f1 EXCEPT ![enc] = Absent])
         ELSE IF update_keys
           THEN LET u == UpdatekeysFile(f1, enc, k, t) IN
                IF u.raised THEN AfterRotation(Raises(u.exc, u.fs), u)
                ELSE AfterRotation(Returns(TRUE, u.fs), u)
         ELSE Returns(TRUE, f1)

\* _decrypt_file(enc_file, dec_file)
DecryptFile(f, enc, dec, r, w, t) ==
    IF r.kind # "exit" THEN Raises(ExcOf(r), f)
    ELSE IF r.rc # 0 THEN Returns(FALSE, f)
    ELSE IF w = "open_fail" THEN Raises("OSError", f)
    ELSE IF w = "write_fail"
      THEN Raises("OSError", [f EXCEPT ![dec] = Written("", t)])
    ELSE LET f1 == [f EXCEPT ![dec] = Written(r.stdout, t)]
             v == IsValidYaml(f1[dec]) IN
         IF v = "raise" THEN Raises("UnicodeDecodeError", f1)
         ELSE IF v = "False"
           THEN Returns(FALSE, [f1 EXCEPT ![dec] = Absent])
         ELSE Returns(TRUE, f1)

\* ------------------------------------------------------ availability probe
NotFound == [kind |-> "notfound", rc |-> 1, stdout |-> ""]

\* possible results of subprocess.run(["sops", "--version"], timeout=10):
\* an exit, a timeout, FileNotFoundError, or another OSError (the file is
\* there but cannot be executed)
ProbeRuns == {Exit(0, "sops 3"), Exit(1, ""), Timeout, NotFound, OsError}

\* a probe that takes any exit of the tool for an answer
CheckSopsAvailable_AnyExit(r) ==
    IF r.kind = "exit" THEN "True"
    ELSE IF r.kind \in {"timeout", "notfound"} THEN "False"
    ELSE "raise"

\* _check_sops_available: "True", "False", or "raise" when the exception is
\* neither TimeoutExpired nor FileNotFoundError
CheckSopsAvailable(r) ==
    IF r.kind = "exit" THEN (IF r.rc = 0 THEN "True" ELSE "False")
    ELSE IF r.kind \in {"timeout", "notfound"} THEN "False"
    ELSE "raise"

\* ------------------------------------------------------------------ export
\* Text is a sequence of characters.  A loaded YAML value is a record whose
\* field t tells its Python type: str, int, bool, NoneType, list or dict (a
\* dict keeps its entries in document order).
StrVal(s) == [t |-> "str", s |-> s]
IntVal(i) == [t |-> "int", i |-> i]
BoolVal(b) == [t |-> "bool", b |-> b]
NoneVal == [t |-> "none"]
ListVal(xs) == [t |-> "list", items |-> xs]
DictVal(es) == [t |-> "dict", entries |-> es]
Entry(k, v) == [key |-> k, val |-> v]
\* content that yaml.safe_load rejects with yaml.YAMLError
Unparsable == [t |-> "unparsable"]

LowerCase == <<"a", "b", "c", "d", "e", "f", "g", "h", "i", "j", "k", "l", "m",
               "n", "o", "p", "q", "r", "s", "t", "u", "v", "w", "x", "y", "z">>
UpperCase == <<"A", "B", "C", "D", "E", "F", "G", "H", "I", "J", "K", "L", "M",
               "N", "O", "P", "Q", "R", "S", "T", "U", "V", "W", "X", "Y", "Z">>
Digits == <<"0", "1", "2", "3", "4", "5", "6", "7", "8", "9">>

\* str.upper()
UpperChar(c) ==
    IF \E i \in 1..Len(LowerCase) : LowerCase[i] = c
      THEN UpperCase[CHOOSE i \in 1..Len(LowerCase) : LowerCase[i] = c]
      ELSE c
Upper(s) == [i \in 1..Len(s) |-> UpperChar(s[i])]

\* str(n) of a natural number
RECURSIVE IntStr(_)
IntStr(n) ==
    IF n < Len(Digits) THEN <<Digits[n + 1]>>
    ELSE IntStr(n \div Len(Digits)) \o <<Digits[(n % Len(Digits)) + 1]>>

\* sep.join(parts)
RECURSIVE JoinText(_, _)
JoinText(parts, sep) ==
    IF parts = <<>> THEN <<>>
    ELSE IF Len(parts) = 1 THEN parts[1]
    ELSE parts[1] \o sep \o JoinText(Tail(parts), sep)

\* str(value) of a scalar
PyStr(v) ==
    IF v.t = "str" THEN v.s
    ELSE IF v.t = "int" THEN IntStr(v.i)
    ELSE IF v.t = "bool" THEN (IF v.b THEN <<"T", "r", "u", "e">>
                               ELSE <<"F", "a", "l", "s", "e">>)
    ELSE <<"N", "o", "n", "e">>

\* the escapes json.dumps applies inside a string
JsonChar(c) ==
    IF c = "\"" THEN <<"\\", "\"">>
    ELSE IF c = "\\" THEN <<"\\", "\\">>
    ELSE IF c = "\n" THEN <<"\\", "n">>
    ELSE IF c = "\t" THEN <<"\\", "t">>
    ELSE <<c>>
JsonString(s) ==
    <<"\"">> \o JoinText([i \in 1..Len(s) |-> JsonChar(s[i])], <<>>) \o <<"\"">>

\* json.dumps(value) with the default separators ", " and ": "
RECURSIVE JsonDumps(_)
JsonDumps(v) ==
    IF v.t = "str" THEN JsonString(v.s)
    ELSE IF v.t = "int" THEN IntStr(v.i)
    ELSE IF v.t = "bool" THEN (IF v.b THEN <<"t", "r", "u", "e">>
                               ELSE <<"f", "a", "l", "s", "e">>)
    ELSE IF v.t = "none" THEN <<"n", "u", "l", "l">>
    ELSE IF v.t = "list"
      THEN <<"[">> \o JoinText([i \in 1..Len(v.items) |-> JsonDumps(v.items[i])],
                            <<",", " ">>) \o <<"]">>
    ELSE <<"{">>
           \o JoinText([i \in 1..Len(v.entries) |->
                      JsonString(PyStr(v.entries[i].key)) \o <<":", " ">>
                        \o JsonDumps(v.entries[i].val)],
                   <<",", " ">>)
           \o <<"}">>

\* the grave accent (U+0060), which a string literal cannot hold
Backtick == "grave"

\* the characters that make _yaml_to_env_format quote a value
QuoteChars == {" ", "\"", "'", "$", Backtick, "\\"}

\* the isinstance chain: scalars through str(), lists and dicts through
\* json.dumps, anything else through str()
EnvValue(v) == IF v.t \in {"list", "dict"} THEN JsonDumps(v) ELSE PyStr(v)

\* the value between double quotes when it holds a space or a special
\* character, as it is otherwise
Quoted(s) ==
    IF \E i \in 1..Len(s) : s[i] \in QuoteChars THEN <<"\"">> \o s \o <<"\"">>
    ELSE s

\* f"{env_key}={env_value}"
EnvLine(e) == Upper(e.key.s) \o <<"=">> \o Quoted(EnvValue(e.val))

\* data.get(section, {}): the value of the first entry under that key, an
\* empty dict when there is none
Get(data, section) ==
    LET found == {i \in 1..Len(data.entries) :
                    /\ data.entries[i].key.t = "str"
                    /\ data.entries[i].key.s = section}
    IN IF found = {} THEN DictVal(<<>>)
       ELSE data.entries[CHOOSE i \in found : \A j \in found : i <= j].val

EnvText(s) == [raised |-> FALSE, text |-> s]
ValueError == [raised |-> TRUE, text |-> <<>>]

\* _yaml_to_env_format(yaml_content, section), data being what
\* yaml.safe_load(yaml_content) gives: the text of the .env file, or
\* ValueError when the content is not YAML, is not a mapping, or a key of
\* the exported mapping has no upper() (it is not a string)
YamlToEnvFormat(data, section) ==
    IF data.t # "dict" THEN ValueError
    ELSE LET section_data == Get(data, section)
             used == IF section_data.t # "dict" THEN data ELSE section_data
             n == Len(used.entries)
         IN IF \E i \in 1..n : used.entries[i].key.t # "str" THEN ValueError
            ELSE EnvText(JoinText([i \in 1..n |-> EnvLine(used.entries[i])], <<"\n">>))

\* the section to_act_format asks for
ActSection == <<"a", "c", "t">>
\* --environment, default "ci"
CiSection == <<"c", "i">>

\* yaml.safe_load of the abstract file contents: two documents with an act
\* section, the empty document (None), and text that is not YAML
SafeLoad(d) ==
    IF d = "y1"
      THEN DictVal(<<Entry(StrVal(ActSection),
                        DictVal(<<Entry(StrVal(<<"d", "b", "_", "u", "s", "e", "r">>),
                                     StrVal(<<"a", "d", "m", "i", "n">>)),
                               Entry(StrVal(<<"c", "o", "u", "n", "t">>), IntVal(3))>>))>>)
    ELSE IF d = "y2"
      THEN DictVal(<<Entry(StrVal(ActSection),
                        DictVal(<<Entry(StrVal(<<"k">>), StrVal(<<"a", " ", "b">>))>>)),
                  Entry(StrVal(CiSection),
                        DictVal(<<Entry(StrVal(<<"t">>), StrVal(<<"v">>))>>))>>)
    ELSE IF d = "" THEN NoneVal
    ELSE Unparsable

\* What can happen during one to_act_format: the tool run, the write of the
\* output file, and ch = chmod succeeded
ExportCases(f) ==
    {c \in [run : DecryptRuns(f), w : WriteOutcomes, ch : BOOLEAN] :
        /\ ~(c.run.kind = "exit" /\ c.run.rc = 0 /\ c.run.stdout \in Plain) => c.w = "ok"
        /\ c.w # "ok" => c.ch}

\* an export that leaves the mode of the output file as open() made it
ToActFormat_NoChmod(sec, environment, r, w, ch, o, t) ==
    IF ~sec.exists THEN [ret |-> FALSE, tool |-> FALSE, out |-> o]
    ELSE IF r.kind # "exit" \/ r.rc # 0 THEN [ret |-> FALSE, tool |-> TRUE, out |-> o]
    ELSE LET e == YamlToEnvFormat(SafeLoad(r.stdout), ActSection)
             mode == IF o.exists THEN o.mode ELSE "umask" IN
         IF e.raised \/ w = "open_fail" THEN [ret |-> FALSE, tool |-> TRUE, out |-> o]
         ELSE IF w = "write_fail"
           THEN [ret |-> FALSE, tool |-> TRUE,
                 out |-> [exists |-> TRUE, data |-> <<>>, mode |-> mode]]
         ELSE [ret |-> TRUE, tool |-> TRUE,
               out |-> [exists |-> TRUE, data |-> e.text, mode |-> mode]]

\* to_act_format(secrets_file, output_file, environment): sec is the secrets
\* file, o the output file before the call; the body never reads environment
ToActFormat(sec, environment, r, w, ch, o, t) ==
    IF ~sec.exists THEN [ret |-> FALSE, tool |-> FALSE, out |-> o]
    ELSE IF r.kind # "exit" \/ r.rc # 0 THEN [ret |-> FALSE, tool |-> TRUE, out |-> o]
    ELSE LET e == YamlToEnvFormat(SafeLoad(r.stdout), ActSection)
             mode == IF o.exists THEN o.mode ELSE "umask" IN
         IF e.raised \/ w = "open_fail" THEN [ret |-> FALSE, tool |-> TRUE, out |-> o]
         ELSE IF w = "write_fail"
           THEN [ret |-> FALSE, tool |-> TRUE,
                 out |-> [exists |-> TRUE, data |-> <<>>, mode |-> mode]]
         ELSE IF ~ch
           THEN [ret |-> FALSE, tool |-> TRUE,
                 out |-> [exists |-> TRUE, data |-> e.text, mode |-> mode]]
         ELSE [ret |-> TRUE, tool |-> TRUE,
               out |-> [exists |-> TRUE, data |-> e.text, mode |-> "0600"]]

\* dec_file.name.replace(".dec.", ".enc.") and its converse in decrypt_files
EncName(p) == <<p[1], IF p[2] = "dec" THEN "enc" ELSE p[2]>>
DecName(p) == <<p[1], IF p[2] = "enc" THEN "dec" ELSE p[2]>>

\* ------------------------------------------------------------------ state
VARIABLES
    fs,        \* the directory tree: [Paths -> file]
    now,       \* the clock that stamps mtimes
    scratch,   \* number of scratch files lying in the temp directory
    last,      \* the call of the detector/runner that returned last
    calls,     \* direct calls made so far
    pc,        \* batch: position of the submitting thread
    cmd,       \* batch: "encrypt", "decrypt" or "updatekeys"
    updk,      \* batch: the update_keys argument
    files,     \* batch: find_files result still to be looped over, in order
    futures,   \* batch: the futures list, one record per submitted task
    joined,    \* batch: futures whose result() has been taken
    count,     \* batch: successful_* counter
    run,       \* batch: number of batch calls started
    log,       \* history of each run, kept for the properties
    max_workers, \* self.max_workers
    probe,     \* the run of `sops --version` and what _check_sops_available made of it
    env,       \* os.environ["AWS_PROFILE"]
    out,       \* the output file of to_act_format
    exitcode,  \* the status the process exited with, NoExit while it runs
    conv,      \* the call of _yaml_to_env_format: its arguments and its result
    wrappers   \* the SOPSWrapper objects constructed so far, in order

unitVars == <<fs, now, scratch, last, calls>>
batchVars == <<pc, cmd, updk, files, futures, joined, count, run, log>>
mainVars == <<max_workers, probe, env, out, exitcode, conv, wrappers>>
vars == <<fs, now, scratch, last, calls, pc, cmd, updk, files, futures, joined,
          count, run, log, max_workers, probe, env, out, exitcode, conv, wrappers>>

\* max_workers: int = 4
DefaultMaxWorkers == 4
NoExit == -1
NoOut == [exists |-> FALSE, data |-> <<>>, mode |-> "none"]

NoProbe == [run |-> Timeout, ret |-> "none"]

\* no call of _yaml_to_env_format yet, on document d
NoConv(d) == [data |-> d, section |-> <<>>, called |-> FALSE,
              raised |-> FALSE, text |-> <<>>]

\* a wrapper whose constructor has returned: the profile is exported and the
\* probe has answered True
\* self.aws_profile = aws_profile
Wrapper(aws_profile) == [aws_profile |-> aws_profile]

Constructed ==
    /\ probe = [run |-> Exit(0, "sops 3"), ret |-> "True"]
    /\ env = "profile" /\ out = NoOut /\ exitcode = NoExit
    /\ conv = NoConv(NoneVal)
    /\ wrappers = <<Wrapper("profile")>>

NoCall == [op |-> "none", stem |-> 0, upd |-> FALSE, ret |-> FALSE,
           raised |-> FALSE, reason |-> "", tool |-> FALSE, left |-> 0,
           run |-> Timeout, nominal |-> TRUE, rot |-> "none",
           pre |-> <<Absent, Absent>>]

\* what a call of _should_encrypt leaves in `last`
DetectorCall(s, res, r, nominal) ==
    [op |-> "should_encrypt", stem |-> s, upd |-> FALSE, ret |-> res.decision,
     raised |-> res.raised, reason |-> res.reason, tool |-> res.tool,
     left |-> res.left, run |-> r, nominal |-> nominal, rot |-> "none",
     pre |-> <<fs[<<s, "dec">>], fs[<<s, "enc">>]>>]

\* what a call of the operation runner leaves in `last`
RunnerCall(op, s, upd, res, r, nominal) ==
    [op |-> op, stem |-> s, upd |-> upd, ret |-> res.ret, raised |-> res.raised,
     reason |-> "", tool |-> TRUE, left |-> 0, run |-> r, nominal |-> nominal,
     rot |-> res.rot,
     pre |-> <<fs[<<s, "dec">>], fs[<<s, "enc">>]>>]

NoLog == [decided |-> {}, skipped |-> {}, invoked |-> {}, garbage |-> {}, unfit |-> {},
          nominal |-> Stems, cmd |-> "none", found |-> {}, fresh |-> {},
          edited |-> {}, ended |-> "no", pattern |-> "none", tool |-> FALSE,
          pending |-> {}, doc |-> "", section |-> <<>>, listed |-> <<>>,
          before |-> [p \in Paths |-> Absent]]

InitBatch ==
    /\ pc = "idle" /\ cmd = "none" /\ updk = FALSE /\ files = <<>>
    /\ futures = <<>> /\ joined = 0 /\ count = 0 /\ run = 0
    /\ log = <<>>

DecFiles == {Absent} \cup {Written(d, t) : d \in {"", "bad", "undec", "y1", "y2"}, t \in 0..1}
EncFiles == {Absent} \cup {Written(d, t) : d \in {"", "bad", "E1", "E2"}, t \in 0..1}

\* ----------------------------------------------------------- direct calls
\* One file pair in every state it can be in; the detector and the three
\* runner operations are called on it directly, as the unit tests do.
UnitStem == 1

InitUnit ==
    /\ \E d \in DecFiles, e \in EncFiles :
         fs = [p \in Paths |-> IF p = <<UnitStem, "dec">> THEN d
                               ELSE IF p = <<UnitStem, "enc">> THEN e ELSE Absent]
    /\ now = 1 /\ scratch = 0 /\ last = NoCall /\ calls = 0
    /\ InitBatch
    /\ max_workers = DefaultMaxWorkers /\ Constructed

CallShouldEncrypt ==
    /\ pc = "idle" /\ calls < MaxCalls
    /\ LET dec == <<UnitStem, "dec">>  enc == EncName(dec) IN
       \E c \in CompareCases(fs[enc]) :
         LET res == ShouldEncrypt(fs[dec], fs[enc], c.run, c.mk, c.w, c.unl) IN
           /\ last' = DetectorCall(UnitStem, res, c.run, c.mk /\ c.w = "ok" /\ c.unl)
           /\ scratch' = scratch + res.left
    /\ calls' = calls + 1
    /\ UNCHANGED <<fs, now>> /\ UNCHANGED batchVars
    /\ UNCHANGED mainVars

CallEncryptFile ==
    /\ pc = "idle" /\ calls < MaxCalls
    /\ LET dec == <<UnitStem, "dec">>  enc == EncName(dec) IN
       \E upd \in BOOLEAN : \E c \in EncryptCases(fs[dec], upd) :
         LET res == EncryptFile(fs, dec, enc, upd, c.run, c.w, c.k, now) IN
           /\ fs' = res.fs
           /\ last' = RunnerCall("encrypt_file", UnitStem, upd, res, c.run,
                                 c.w = "ok" /\ c.k = "ok")
    /\ calls' = calls + 1
    /\ UNCHANGED <<now, scratch>> /\ UNCHANGED batchVars
    /\ UNCHANGED mainVars

CallDecryptFile ==
    /\ pc = "idle" /\ calls < MaxCalls
    /\ LET enc == <<UnitStem, "enc">>  dec == DecName(enc) IN
       \E c \in DecryptCases(fs[enc]) :
         LET res == DecryptFile(fs, enc, dec, c.run, c.w, now) IN
           /\ fs' = res.fs
           /\ last' = RunnerCall("decrypt_file", UnitStem, FALSE, res, c.run, c.w = "ok")
    /\ calls' = calls + 1
    /\ UNCHANGED <<now, scratch>> /\ UNCHANGED batchVars
    /\ UNCHANGED mainVars

CallUpdatekeysFile ==
    /\ pc = "idle" /\ calls < MaxCalls
    /\ LET enc == <<UnitStem, "enc">> IN
       \E k \in UpdatekeysRuns(fs[enc]) :
         LET res == UpdatekeysFile(fs, enc, k, now) IN
           /\ fs' = res.fs
           /\ last' = RunnerCall("updatekeys_file", UnitStem, FALSE, res,
                                 IF k = "timeout" THEN Timeout
                                 ELSE IF k = "oserror" THEN OsError
                                 ELSE IF k = "nonzero" THEN Exit(1, "") ELSE Exit(0, ""),
                                 k = "ok")
    /\ calls' = calls + 1
    /\ UNCHANGED <<now, scratch>> /\ UNCHANGED batchVars
    /\ UNCHANGED mainVars

NextUnit == CallShouldEncrypt \/ CallEncryptFile \/ CallDecryptFile \/ CallUpdatekeysFile


\* ------------------------------------------- properties of the direct calls
\* The predicates below are stated on the raw file records, not through the
\* validator of the model.
ZeroByte(f) == f.exists /\ f.data = ""
NonEmpty(f) == f.exists /\ f.data # ""
WellFormed(f) == f.exists /\ f.data \in {"y1", "y2", "E1", "E2"}
PreDec == last.pre[1]
PreEnc == last.pre[2]
LastDec == fs[<<last.stem, "dec">>]
LastEnc == fs[<<last.stem, "enc">>]
ToolFailed(r) == r.kind # "exit" \/ r.rc # 0
\* the detector call got as far as the round-trip comparison
ReachedComparison ==
    /\ last.op = "should_encrypt" /\ ~last.raised
    /\ WellFormed(PreDec) /\ NonEmpty(PreEnc) /\ PreDec.mtime <= PreEnc.mtime

\* C1: whenever _encrypt_file or _decrypt_file returns failure, no zero-byte
\* file exists at its target path (the ciphertext path for encrypt, the
\* plaintext path for decrypt), whatever the target was before and whatever
\* made the call fail.
C1_NoZeroByteAfterFailure ==
    /\ (last.op = "encrypt_file" /\ ~last.ret) => ~ZeroByte(LastEnc)
    /\ (last.op = "decrypt_file" /\ ~last.ret) => ~ZeroByte(LastDec)

\* C2: when the detector reaches the round-trip comparison and the comparison
\* decryption fails (non-zero exit, timeout, OSError), the decision is
\* (True, "unable to verify encrypted content").
C2_FailSafeComparison ==
    (ReachedComparison /\ ToolFailed(last.run)) =>
        (last.ret /\ last.reason = "unable to verify encrypted content")

\* C3: after _should_encrypt returns, by any exit path, no scratch file
\* created by that call is left on disk.
C3_ScratchRemoved ==
    last.op = "should_encrypt" => last.left = 0

\* C6 as stated: for every well-formed plaintext P and every ciphertext C
\* whose decryption has the same content hash as P, _should_encrypt returns
\* (False, "no changes detected").
SameContentPair ==
    /\ last.op = "should_encrypt" /\ ~last.raised /\ last.nominal
    /\ WellFormed(PreDec) /\ NonEmpty(PreEnc)
    /\ last.run = Exit(0, PreDec.data)

C6_SameContentNoChange ==
    SameContentPair => (~last.ret /\ last.reason = "no changes detected")

\* C6 amended: for every well-formed plaintext P and every ciphertext C
\* whose decryption has the same content hash as P, and with P's
\* modification time not strictly newer than C's, _should_encrypt returns
\* (False, "no changes detected").
C6_SameContentNotNewer ==
    (SameContentPair /\ PreDec.mtime <= PreEnc.mtime) =>
        (~last.ret /\ last.reason = "no changes detected")

C6_Witness ==
    /\ SameContentPair /\ PreDec.mtime = PreEnc.mtime /\ last.tool
    /\ ~last.ret /\ last.reason = "no changes detected"

\* C7 as stated: for every plaintext file F whose encrypted counterpart does
\* not exist, _should_encrypt returns (True, "no encrypted file exists").
C7_MissingCiphertext ==
    (last.op = "should_encrypt" /\ PreDec.exists /\ ~PreEnc.exists)
      => (~last.raised /\ last.ret /\ last.reason = "no encrypted file exists")

\* C7 amended: for every well-formed plaintext file F whose encrypted
\* counterpart does not exist, _should_encrypt returns
\* (True, "no encrypted file exists").
C7_MissingCiphertextValidSource ==
    (last.op = "should_encrypt" /\ WellFormed(PreDec) /\ ~PreEnc.exists)
      => (~last.raised /\ last.ret /\ last.reason = "no encrypted file exists")

C7_Witness ==
    /\ last.op = "should_encrypt" /\ WellFormed(PreDec) /\ ~PreEnc.exists
    /\ last.ret /\ last.reason = "no encrypted file exists"

\* C9: _should_encrypt applies its rules in the order plaintext invalid,
\* ciphertext absent, ciphertext empty, plaintext strictly newer, content
\* comparison, and returns at the first that applies; the detector invokes
\* the tool only when none of the first four applies; equal modification
\* times are not "source file is newer".
C9_RuleOrder ==
    last.op = "should_encrypt" =>
      /\ last.raised => (~last.tool /\ ~last.ret)
      /\ last.tool => (WellFormed(PreDec) /\ NonEmpty(PreEnc)
                         /\ PreDec.mtime <= PreEnc.mtime)
      /\ PreDec.mtime = PreEnc.mtime => last.reason # "source file is newer"
      /\ \/ last.raised
         \/ /\ last.reason = "source file is empty or invalid YAML"
                 <=> ~WellFormed(PreDec)
            /\ last.reason = "no encrypted file exists"
                 <=> (WellFormed(PreDec) /\ ~PreEnc.exists)
            /\ last.reason = "encrypted file is empty"
                 <=> (WellFormed(PreDec) /\ ZeroByte(PreEnc))
            /\ last.reason = "source file is newer"
                 <=> (WellFormed(PreDec) /\ NonEmpty(PreEnc)
                        /\ PreDec.mtime > PreEnc.mtime)
            /\ last.reason \in {"content has changed", "no changes detected",
                                "unable to verify encrypted content"}
                 <=> (WellFormed(PreDec) /\ NonEmpty(PreEnc)
                        /\ PreDec.mtime <= PreEnc.mtime)

C9_Witness ==
    /\ last.op = "should_encrypt" /\ WellFormed(PreDec) /\ NonEmpty(PreEnc)
    /\ PreDec.mtime = PreEnc.mtime /\ last.tool
    /\ last.reason = "content has changed"

\* C10: after _updatekeys_file or _encrypt_file returns, with any result, the
\* ciphertext path is absent or non-empty; _encrypt_file returning True
\* implies a non-empty ciphertext on disk even when the rotation failed.
C10_NoZeroByteCiphertext ==
    /\ last.op \in {"updatekeys_file", "encrypt_file"} => ~ZeroByte(LastEnc)
    /\ (last.op = "encrypt_file" /\ last.ret) => NonEmpty(LastEnc)

\* C12: _encrypt_file, _decrypt_file and _updatekeys_file resolve to a
\* boolean for every outcome of the tool and of the filesystem (timeout,
\* non-zero exit, empty or malformed output, OSError) and never raise to the
\* caller; a timeout or a non-zero exit of the operation's own tool run
\* yields False.
IsRunnerCall == last.op \in {"encrypt_file", "decrypt_file", "updatekeys_file"}

C12_RunnerResolvesToBoolean ==
    IsRunnerCall =>
      /\ ~last.raised
      /\ last.ret \in BOOLEAN
      /\ ToolFailed(last.run) => ~last.ret

\* a write that failed with OSError after the tool had exited 0 with output
C12_Witness ==
    /\ IsRunnerCall /\ ~last.raised /\ ~last.ret
    /\ last.run.kind = "exit" /\ last.run.rc = 0 /\ last.run.stdout \notin {"", "bad"}
    /\ ~last.nominal

\* C11: after _decrypt_file returns, with success or failure and for any
\* prior content of the plaintext path, the plaintext path does not exist or
\* holds syntactically valid YAML.
C11_PlaintextAbsentOrValid ==
    last.op = "decrypt_file" => (~LastDec.exists \/ WellFormed(LastDec))

\* C24: _encrypt_file with update_keys=True attempts the key rotation only
\* after the encryption step succeeded and its output was verified
\* non-empty, and returns True whenever that step succeeded, whatever the
\* rotation did (failure, timeout); with update_keys=False no rotation is
\* attempted.
EncryptionProduced ==
    last.run.kind = "exit" /\ last.run.rc = 0 /\ last.run.stdout # ""

C24_BestEffortRotation ==
    last.op = "encrypt_file" =>
      /\ last.rot # "none" => (last.upd /\ EncryptionProduced)
      /\ last.rot # "none" => (last.ret /\ ~last.raised)
      /\ (EncryptionProduced /\ last.nominal) => last.ret
      /\ ~last.upd => last.rot = "none"

\* an encryption followed by a rotation that failed, answered True
C24_Witness ==
    /\ last.op = "encrypt_file" /\ last.upd /\ EncryptionProduced
    /\ last.rot = "failed" /\ last.ret

\* C25: when the tool's encrypt exits 0 but emits empty output,
\* _encrypt_file returns False and no file remains at the ciphertext path
\* afterwards.
EmptyEncryption ==
    /\ last.op = "encrypt_file"
    /\ last.run.kind = "exit" /\ last.run.rc = 0 /\ last.run.stdout = ""

C26_RotationVerified ==
    last.op = "updatekeys_file" =>
      /\ (last.run.kind = "exit" /\ last.run.rc = 0 /\ ~NonEmpty(LastEnc))
            => ~last.ret
      /\ last.ret => (last.run.kind = "exit" /\ last.run.rc = 0 /\ NonEmpty(LastEnc))

\* an updatekeys that exited 0 and left no file
C26_Witness ==
    /\ last.op = "updatekeys_file" /\ last.run.kind = "exit" /\ last.run.rc = 0
    /\ NonEmpty(PreEnc) /\ ~LastEnc.exists /\ ~last.ret

\* ----------------------------------------------------------- the commands
MaxWorkers == 2  \* the largest max_workers argument a command is run with
MaxRuns == 2     \* encrypt_files calls made one after the other in SpecRerun

PathLeq(p, q) ==
    \/ p[1] < q[1]
    \/ p[1] = q[1] /\ (p[2] = "dec" \/ q[2] = "enc")

RECURSIVE SortedSeq(_)
SortedSeq(S) ==
    IF S = {} THEN <<>>
    ELSE LET m == CHOOSE x \in S : \A y \in S : PathLeq(x, y)
         IN <<m>> \o SortedSeq(S \ {m})

\* the patterns a command is given: "dec" is "*.dec.yaml" (the default of
\* encrypt), "enc" is "*.enc.yaml" (the default of decrypt and updatekeys),
\* "any" is "*.yaml"
Patterns == {"dec", "enc", "any"}
Matches(p, pattern) == pattern = "any" \/ p[2] = pattern

\* the list in the converse order, one of the orders rglob can yield
RECURSIVE Reversed(_)
Reversed(q) == IF q = <<>> THEN <<>> ELSE Reversed(Tail(q)) \o <<Head(q)>>

\* a discovery that returns what rglob yields, unsorted
FindFiles_Unsorted(f, pattern) ==
    Reversed(SortedSeq({p \in Paths : Matches(p, pattern) /\ f[p].exists}))

\* find_files(pattern, base_dir): sorted(base_dir.rglob(pattern))
FindFiles(f, pattern) == SortedSeq({p \in Paths : Matches(p, pattern) /\ f[p].exists})

Running == {i \in 1..Len(futures) : futures[i].st = "running"}
AllDone == \A i \in 1..Len(futures) : futures[i].st = "done"
\* a submitted task; n counts the calls of the runner made for it
Task(src, dst) == [src |-> src, dst |-> dst, st |-> "queued", ret |-> FALSE, n |-> 0]
SeqToStems(q) == {q[i][1] : i \in 1..Len(q)}

\* the file pairs a directory is populated with: <<plaintext, ciphertext>>
BatchPairs ==
    { <<Written("y1", 1), Absent>>,               \* never encrypted
      <<Written("y1", 1), Written("E1", 1)>>,     \* encrypted, unchanged
      <<Written("y1", 1), Written("E2", 1)>>,     \* encrypted, content differs
      <<Written("undec", 1), Written("E1", 1)>>,  \* plaintext is not UTF-8
      <<Written("bad", 1), Absent>>,              \* malformed, no ciphertext
      <<Written("", 1), Written("", 1)>>,         \* both zero-byte
      <<Written("bad", 1), Written("E1", 0)>>,    \* malformed, newer than ciphertext
      <<Written("", 0), Written("E1", 1)>>,       \* zero-byte, older than ciphertext
      <<Absent, Written("E2", 1)>> }              \* never decrypted

InitBatchSpec ==
    /\ \E pairs \in [Stems -> BatchPairs] :
         fs = [p \in Paths |-> IF p[2] = "dec" THEN pairs[p[1]][1] ELSE pairs[p[1]][2]]
    /\ now = 1 /\ scratch = 0 /\ last = NoCall /\ calls = 0
    /\ InitBatch
    /\ max_workers \in 1..MaxWorkers /\ Constructed

\* a command that takes an empty discovery for an error
Begin_EmptyIsError(c, u, pattern) ==
    LET found == FindFiles(fs, pattern) IN
      /\ cmd' = c /\ updk' = u
      /\ files' = found
      /\ pc' = IF found = <<>> THEN "raised" ELSE "loop"
      /\ log' = Append(log,
                  [NoLog EXCEPT !.cmd = c, !.pattern = pattern, !.before = fs,
                     !.found = SeqToStems(found), !.listed = found,
                     !.fresh = {s \in Stems : /\ fs[<<s, "dec">>].exists
                                              /\ fs[<<s, "dec">>].data \in Plain
                                              /\ ~fs[<<s, "enc">>].exists},
                     !.ended = IF found = <<>> THEN "raised" ELSE "no"])
      /\ futures' = <<>> /\ joined' = 0 /\ count' = 0
      /\ run' = run + 1
      /\ UNCHANGED unitVars
      /\ UNCHANGED mainVars

\* entry of a command up to its loop: discovery, the empty case, the pool
Begin(c, u, pattern) ==
    LET found == FindFiles(fs, pattern) IN
      /\ cmd' = c /\ updk' = u
      /\ files' = found
      /\ pc' = IF found = <<>> THEN "returned" ELSE "loop"
      /\ log' = Append(log,
                  [NoLog EXCEPT !.cmd = c, !.pattern = pattern, !.before = fs,
                     !.found = SeqToStems(found), !.listed = found,
                     !.fresh = {s \in Stems : /\ fs[<<s, "dec">>].exists
                                              /\ fs[<<s, "dec">>].data \in Plain
                                              /\ ~fs[<<s, "enc">>].exists},
                     !.ended = IF found = <<>> THEN "returned" ELSE "no"])
      /\ futures' = <<>> /\ joined' = 0 /\ count' = 0
      /\ run' = run + 1
      /\ UNCHANGED unitVars
      /\ UNCHANGED mainVars

\* encrypt_files(update_keys=u), decrypt_files(), updatekeys_files()
StartEncrypt ==
    pc = "idle" /\ calls = 0 /\ \E u \in BOOLEAN : Begin("encrypt", u, "dec")
StartDecrypt ==
    pc = "idle" /\ calls = 0 /\ Begin("decrypt", FALSE, "enc")
StartUpdatekeys ==
    pc = "idle" /\ calls = 0 /\ Begin("updatekeys", FALSE, "enc")

\* a loop that stops submitting after its first file
LoopEnd_FirstOnly == "join"

\* the for loop goes on until find_files' list is exhausted
LoopEnd == IF Tail(files) = <<>> THEN "join" ELSE "loop"

\* one iteration of the loop of encrypt_files: the detector runs in the
\* submitting thread; an exception leaves the with-block
EncryptLoop ==
    /\ pc = "loop" /\ cmd = "encrypt"
    /\ LET dec == Head(files)  enc == EncName(dec)  s == dec[1] IN
       \E c \in CompareCases(fs[enc]) :
         LET res == ShouldEncrypt(fs[dec], fs[enc], c.run, c.mk, c.w, c.unl)
             compared == res.reason \in {"content has changed", "no changes detected",
                                         "unable to verify encrypted content"}
             ok == c.mk /\ c.w = "ok" /\ c.unl /\ c.run = FixedDecryptRun(fs[enc])
         IN
           /\ scratch' = scratch + res.left
           /\ futures' = IF ~res.raised /\ res.decision
                           THEN Append(futures, Task(dec, enc)) ELSE futures
           /\ pc' = IF res.raised THEN "unwind" ELSE LoopEnd
           /\ log' = [log EXCEPT
                        ![run].decided = IF res.raised THEN @ ELSE @ \cup {s},
                        ![run].skipped = IF ~res.raised /\ ~res.decision
                                           THEN @ \cup {s} ELSE @,
                        ![run].unfit = IF ~fs[dec].exists \/ fs[dec].data \in {"", "bad"}
                                         THEN @ \cup {s} ELSE @,
                        ![run].nominal = IF compared /\ ~ok THEN @ \ {s} ELSE @,
                        ![run].tool = @ \/ res.tool]
    /\ files' = Tail(files)
    /\ UNCHANGED <<fs, now, last, calls, cmd, updk, joined, count, run>>
    /\ UNCHANGED mainVars

\* one iteration of the loop of decrypt_files / updatekeys_files
SubmitLoop ==
    /\ pc = "loop" /\ cmd \in {"decrypt", "updatekeys"}
    /\ LET enc == Head(files) IN
         futures' = Append(futures, Task(enc, IF cmd = "decrypt" THEN DecName(enc) ELSE enc))
    /\ files' = Tail(files)
    /\ pc' = LoopEnd
    /\ UNCHANGED <<cmd, updk, joined, count, run, log>>
    /\ UNCHANGED unitVars
    /\ UNCHANGED mainVars

\* a pool that starts a thread for every queued task
StartTask_Unbounded ==
    /\ \E i \in 1..Len(futures) :
         /\ futures[i].st = "queued"
         /\ \A j \in 1..(i - 1) : futures[j].st # "queued"
         /\ futures' = [futures EXCEPT ![i].st = "running"]
    /\ UNCHANGED <<pc, cmd, updk, files, joined, count, run, log>>
    /\ UNCHANGED unitVars
    /\ UNCHANGED mainVars

\* a pool thread takes the oldest queued task
StartTask ==
    /\ \E i \in 1..Len(futures) :
         /\ futures[i].st = "queued"
         /\ \A j \in 1..(i - 1) : futures[j].st # "queued"
         /\ Cardinality(Running) < max_workers
         /\ futures' = [futures EXCEPT ![i].st = "running"]
    /\ UNCHANGED <<pc, cmd, updk, files, joined, count, run, log>>
    /\ UNCHANGED unitVars
    /\ UNCHANGED mainVars

\* a pool thread runs _encrypt_file to its return
RunEncrypt ==
    /\ cmd = "encrypt"
    /\ \E i \in Running :
         LET dec == futures[i].src  enc == futures[i].dst  s == dec[1] IN
         \E c \in EncryptCases(fs[dec], updk) :
           LET res == EncryptFile(fs, dec, enc, updk, c.run, c.w, c.k, now)
               ok == c.run = FixedEncryptRun(fs[dec]) /\ c.w = "ok" /\ c.k = "ok"
           IN
             /\ fs' = res.fs
             /\ futures' = [futures EXCEPT ![i].st = "done", ![i].ret = res.ret,
                                           ![i].n = @ + 1]
             /\ log' = [log EXCEPT
                          ![run].invoked = @ \cup {s},
                          ![run].garbage = IF fs[dec].exists /\ fs[dec].data \in Plain
                                             THEN @ ELSE @ \cup {s},
                          ![run].nominal = IF ok THEN @ ELSE @ \ {s}]
    /\ UNCHANGED <<now, scratch, last, calls, pc, cmd, updk, files, joined, count, run>>
    /\ UNCHANGED mainVars

\* a pool thread runs _decrypt_file to its return
RunDecrypt ==
    /\ cmd = "decrypt"
    /\ \E i \in Running :
         LET enc == futures[i].src  dec == futures[i].dst IN
         \E c \in DecryptCases(fs[enc]) :
           LET res == DecryptFile(fs, enc, dec, c.run, c.w, now) IN
             /\ fs' = res.fs
             /\ futures' = [futures EXCEPT ![i].st = "done", ![i].ret = res.ret,
                                           ![i].n = @ + 1]
    /\ UNCHANGED <<now, scratch, last, calls, pc, cmd, updk, files, joined, count,
                   run, log>>
    /\ UNCHANGED mainVars

\* a pool thread runs _updatekeys_file to its return
RunUpdatekeys ==
    /\ cmd = "updatekeys"
    /\ \E i \in Running :
         LET enc == futures[i].src IN
         \E k \in UpdatekeysRuns(fs[enc]) :
           LET res == UpdatekeysFile(fs, enc, k, now) IN
             /\ fs' = res.fs
             /\ futures' = [futures EXCEPT ![i].st = "done", ![i].ret = res.ret,
                                           ![i].n = @ + 1]
    /\ UNCHANGED <<now, scratch, last, calls, pc, cmd, updk, files, joined, count,
                   run, log>>
    /\ UNCHANGED mainVars

\* for future in futures: if future.result(): successful += 1
Join ==
    /\ pc = "join"
    /\ joined < Len(futures)
    /\ futures[joined + 1].st = "done"
    /\ joined' = joined + 1
    /\ count' = IF futures[joined + 1].ret THEN count + 1 ELSE count
    /\ UNCHANGED <<pc, cmd, updk, files, futures, run, log>>
    /\ UNCHANGED unitVars
    /\ UNCHANGED mainVars

\* a command that returns its counter without waiting for its futures
Return_NoWait ==
    /\ pc = "join"
    /\ pc' = "returned"
    /\ log' = [log EXCEPT ![run].ended = "returned"]
    /\ UNCHANGED <<cmd, updk, files, futures, joined, count, run>>
    /\ UNCHANGED unitVars
    /\ UNCHANGED mainVars

\* the with-block is left and the command returns its counter
Return ==
    /\ pc = "join"
    /\ joined = Len(futures)
    /\ pc' = "returned"
    /\ log' = [log EXCEPT ![run].ended = "returned"]
    /\ UNCHANGED <<cmd, updk, files, futures, joined, count, run>>
    /\ UNCHANGED unitVars
    /\ UNCHANGED mainVars

\* an exception of the detector leaves the with-block: the executor is shut
\* down with wait=True, then the exception leaves encrypt_files
Unwind ==
    /\ pc = "unwind"
    /\ AllDone
    /\ pc' = "raised"
    /\ log' = [log EXCEPT ![run].ended = "raised"]
    /\ UNCHANGED <<cmd, updk, files, futures, joined, count, run>>
    /\ UNCHANGED unitVars
    /\ UNCHANGED mainVars

NextEncrypt ==
    \/ StartEncrypt \/ EncryptLoop \/ StartTask \/ RunEncrypt
    \/ Join \/ Return \/ Unwind

NextBatch ==
    \/ NextEncrypt
    \/ StartDecrypt \/ StartUpdatekeys \/ SubmitLoop \/ RunDecrypt \/ RunUpdatekeys

\* The wrapper as its callers use it: from a populated directory, either the
\* detector and the runner are called directly or one command is run.
Init == InitUnit \/ InitBatchSpec
Next == NextUnit \/ NextBatch
Spec == Init /\ [][Next]_vars

\* ------------------------------------ SpecRerun: encrypt, edit, encrypt again
RerunPairs ==
    { <<Written("y1", 1), Absent>>,               \* never encrypted
      <<Written("y1", 1), Written("E1", 1)>>,     \* encrypted, unchanged
      <<Written("undec", 1), Absent>> }           \* plaintext is not UTF-8

InitRerun ==
    /\ \E pairs \in [Stems -> RerunPairs] :
         fs = [p \in Paths |-> IF p[2] = "dec" THEN pairs[p[1]][1] ELSE pairs[p[1]][2]]
    /\ now = 1 /\ scratch = 0 /\ last = NoCall /\ calls = 0
    /\ InitBatch
    /\ max_workers = MaxWorkers /\ Constructed

\* the command is run again with the same arguments
Reencrypt ==
    /\ pc \in {"returned", "raised"}
    /\ cmd = "encrypt"
    /\ run < MaxRuns
    /\ Begin("encrypt", updk, "dec")

\* between two commands the user rewrites a plaintext file
EditPlaintext ==
    /\ pc \in {"returned", "raised"}
    /\ run < MaxRuns
    /\ now < MaxTime
    /\ \E s \in Stems, d \in {"y1", "y2"} :
         /\ fs[<<s, "dec">>].exists
         /\ fs[<<s, "dec">>].data # d
         /\ fs' = [fs EXCEPT ![<<s, "dec">>] = Written(d, now + 1)]
         /\ log' = [log EXCEPT ![run].edited = @ \cup {s}]
    /\ now' = now + 1
    /\ UNCHANGED <<scratch, last, calls, pc, cmd, updk, files, futures, joined, count, run>>
    /\ UNCHANGED mainVars

NextRerun == NextEncrypt \/ Reencrypt \/ EditPlaintext

SpecRerun == InitRerun /\ [][NextRerun]_vars

\* ------------------------- SpecPattern: a command given any of the patterns
PatternPairs ==
    { <<Written("y1", 1), Absent>>,               \* never encrypted
      <<Written("y1", 1), Written("E1", 1)>>,     \* encrypted, unchanged
      <<Written("y1", 1), Written("", 1)>>,       \* zero-byte ciphertext
      <<Written("undec", 1), Absent>> }           \* plaintext is not UTF-8

InitPattern ==
    /\ \E pairs \in [Stems -> PatternPairs] :
         fs = [p \in Paths |-> IF p[2] = "dec" THEN pairs[p[1]][1] ELSE pairs[p[1]][2]]
    /\ now = 1 /\ scratch = 0 /\ last = NoCall /\ calls = 0
    /\ InitBatch
    /\ max_workers = MaxWorkers /\ Constructed

\* encrypt_files(pattern), decrypt_files(pattern)
EncryptPattern ==
    pc = "idle" /\ \E pattern \in Patterns : Begin("encrypt", FALSE, pattern)
DecryptPattern ==
    pc = "idle" /\ \E pattern \in Patterns : Begin("decrypt", FALSE, pattern)

NextPattern ==
    \/ EncryptPattern \/ DecryptPattern
    \/ EncryptLoop \/ SubmitLoop \/ StartTask \/ RunEncrypt \/ RunDecrypt
    \/ Join \/ Return \/ Unwind

SpecPattern == InitPattern /\ [][NextPattern]_vars

\* ------------------------------------------------- SpecCli: the command line
CliPairs ==
    { <<Written("y1", 1), Absent>>,               \* never encrypted
      <<Written("y1", 1), Written("E1", 1)>>,     \* encrypted, unchanged
      <<Written("undec", 1), Absent>>,            \* plaintext is not UTF-8
      <<Absent, Written("E2", 1)>> }              \* never decrypted

\* the process has started and main() has parsed its arguments
InitCli ==
    /\ \E pairs \in [Stems -> CliPairs] :
         fs = [p \in Paths |-> IF p[2] = "dec" THEN pairs[p[1]][1] ELSE pairs[p[1]][2]]
    /\ now = 1 /\ scratch = 0 /\ last = NoCall /\ calls = 0
    /\ pc = "start" /\ cmd = "none" /\ updk = FALSE /\ files = <<>>
    /\ futures = <<>> /\ joined = 0 /\ count = 0 /\ run = 0 /\ log = <<>>
    /\ max_workers \in {1, DefaultMaxWorkers}
    /\ conv = NoConv(NoneVal)
    /\ probe = NoProbe /\ env \in {"unset", "other"} /\ out = NoOut
    /\ exitcode = NoExit /\ wrappers = <<>>

\* a constructor that goes on when the probe answers False
Construct_NoRaise ==
    /\ pc = "start"
    /\ \E r \in ProbeRuns :
         LET a == CheckSopsAvailable(r) IN
           /\ probe' = [run |-> r, ret |-> a]
           /\ pc' = IF a = "raise" THEN "exited" ELSE "idle"
           /\ exitcode' = IF a = "raise" THEN 1 ELSE NoExit
           /\ wrappers' = IF a = "raise" THEN wrappers ELSE <<Wrapper("profile")>>
    /\ env' = "profile"
    /\ UNCHANGED <<conv, max_workers, out>>
    /\ UNCHANGED <<cmd, updk, files, futures, joined, count, run, log>>
    /\ UNCHANGED unitVars

\* main: sops = SOPSWrapper(...).  __init__ exports the profile, then probes;
\* RuntimeError makes main exit 1, any other exception ends the process with
\* a traceback and status 1
Construct ==
    /\ pc = "start"
    /\ \E r \in ProbeRuns :
         LET a == CheckSopsAvailable(r) IN
           /\ probe' = [run |-> r, ret |-> a]
           /\ pc' = IF a = "True" THEN "idle" ELSE "exited"
           /\ exitcode' = IF a = "True" THEN NoExit ELSE 1
           /\ wrappers' = IF a = "True" THEN <<Wrapper("profile")>> ELSE wrappers
    /\ env' = "profile"
    /\ UNCHANGED <<conv, max_workers, out>>
    /\ UNCHANGED <<cmd, updk, files, futures, joined, count, run, log>>
    /\ UNCHANGED unitVars

\* main: the to-act action; the boolean is turned into a count
MainToAct ==
    /\ pc = "idle" /\ calls = 0
    /\ \E sec \in {p \in Paths : p[2] = "enc"} : \E c \in ExportCases(fs[sec]) :
       \E environment \in {ActSection, CiSection} :
         LET res == ToActFormat(fs[sec], environment, c.run, c.w, c.ch, out, now) IN
           /\ out' = res.out
           /\ count' = IF res.ret THEN 1 ELSE 0
           /\ log' = Append(log, [NoLog EXCEPT !.cmd = "to-act", !.tool = res.tool,
                                                !.ended = "returned",
                                                !.doc = c.run.stdout,
                                                !.section = environment])
    /\ cmd' = "to-act" /\ pc' = "returned" /\ run' = run + 1
    /\ UNCHANGED <<updk, files, futures, joined>>
    /\ UNCHANGED <<conv, max_workers, probe, env, exitcode, wrappers>>
    /\ UNCHANGED unitVars

\* Ctrl-C while a command runs: KeyboardInterrupt is raised in the main
\* thread, in the submission loop or while it waits for a result, and leaves
\* the with-block.  `pending` keeps the tasks that were queued at that time.
Interrupt ==
    /\ pc \in {"loop", "join"}
    /\ pc' = "interrupted"
    /\ log' = [log EXCEPT ![run].pending =
                  {i \in 1..Len(futures) : futures[i].st = "queued"}]
    /\ UNCHANGED <<cmd, updk, files, futures, joined, count, run>>
    /\ UNCHANGED unitVars
    /\ UNCHANGED mainVars

\* the executor is shut down with wait=True and without cancel_futures: the
\* pool threads go on taking queued tasks; when all are done the
\* KeyboardInterrupt leaves the command
Cancelled ==
    /\ pc = "interrupted"
    /\ AllDone
    /\ pc' = "cancelled"
    /\ log' = [log EXCEPT ![run].ended = "cancelled"]
    /\ UNCHANGED <<cmd, updk, files, futures, joined, count, run>>
    /\ UNCHANGED unitVars
    /\ UNCHANGED mainVars

\* sys.exit(130)
SigintStatus == 130

\* a main whose handler of KeyboardInterrupt exits like that of Exception
MainExit_NoSigint ==
    /\ pc \in {"returned", "raised", "cancelled"}
    /\ exitcode' = IF pc = "returned" /\ count > 0 THEN 0 ELSE 1
    /\ env' = IF env = "profile" THEN "unset" ELSE env
    /\ pc' = "exited"
    /\ UNCHANGED <<conv, max_workers, probe, out, wrappers>>
    /\ UNCHANGED <<cmd, updk, files, futures, joined, count, run, log>>
    /\ UNCHANGED unitVars

\* main: sys.exit(0 if result > 0 else 1), exit 130 from `except
\* KeyboardInterrupt`, or exit 1 from `except Exception`; then
\* `finally: sops.cleanup()`
MainExit ==
    /\ pc \in {"returned", "raised", "cancelled"}
    /\ exitcode' = IF pc = "cancelled" THEN SigintStatus
                   ELSE IF pc = "returned" /\ count > 0 THEN 0 ELSE 1
    /\ env' = IF env = "profile" THEN "unset" ELSE env
    /\ pc' = "exited"
    /\ UNCHANGED <<conv, max_workers, probe, out, wrappers>>
    /\ UNCHANGED <<cmd, updk, files, futures, joined, count, run, log>>
    /\ UNCHANGED unitVars

NextCli ==
    \/ Construct
    \/ StartEncrypt \/ StartDecrypt \/ StartUpdatekeys \/ MainToAct
    \/ EncryptLoop \/ SubmitLoop \/ StartTask
    \/ RunEncrypt \/ RunDecrypt \/ RunUpdatekeys
    \/ Join \/ Return \/ Unwind
    \/ Interrupt \/ Cancelled
    \/ MainExit

SpecCli == InitCli /\ [][NextCli]_vars

\* ------------------------------------------------------------ validator
\* _is_file_not_empty and _is_valid_yaml called directly on the files of one
\* pair in every state, as the unit tests call them.
ValidatorCall(op, p, ret, raised) ==
    [NoCall EXCEPT !.op = op, !.stem = p[1], !.reason = p[2], !.ret = ret,
                   !.raised = raised,
                   !.pre = <<fs[<<p[1], "dec">>], fs[<<p[1], "enc">>]>>]

CallIsFileNotEmpty ==
    /\ calls < MaxCalls
    /\ \E m \in Markers :
         last' = ValidatorCall("is_file_not_empty", <<UnitStem, m>>,
                               IsFileNotEmpty(fs[<<UnitStem, m>>]), FALSE)
    /\ calls' = calls + 1
    /\ UNCHANGED <<fs, now, scratch>>
    /\ UNCHANGED batchVars
    /\ UNCHANGED mainVars

CallIsValidYaml ==
    /\ calls < MaxCalls
    /\ \E m \in Markers :
         LET v == IsValidYaml(fs[<<UnitStem, m>>]) IN
           last' = ValidatorCall("is_valid_yaml", <<UnitStem, m>>,
                                 v = "True", v = "raise")
    /\ calls' = calls + 1
    /\ UNCHANGED <<fs, now, scratch>>
    /\ UNCHANGED batchVars
    /\ UNCHANGED mainVars

NextValidator == CallIsFileNotEmpty \/ CallIsValidYaml
SpecValidator == InitUnit /\ [][NextValidator]_vars

\* ------------------------------------------------------------ discovery
\* find_files called up to MaxRuns times on a directory tree in which files
\* come and go between the calls.
InitFind ==
    /\ fs \in [Paths -> {Absent, Written("y1", 1)}]
    /\ now = 1 /\ scratch = 0 /\ last = NoCall /\ calls = 0
    /\ InitBatch
    /\ max_workers = DefaultMaxWorkers /\ Constructed

CallFindFiles ==
    /\ run < MaxRuns
    /\ \E pattern \in Patterns :
         LET found == FindFiles(fs, pattern) IN
           /\ files' = found
           /\ log' = Append(log, [NoLog EXCEPT !.cmd = "find", !.pattern = pattern,
                                                !.before = fs, !.listed = found,
                                                !.found = SeqToStems(found),
                                                !.ended = "returned"])
    /\ run' = run + 1
    /\ UNCHANGED <<pc, cmd, updk, futures, joined, count>>
    /\ UNCHANGED unitVars
    /\ UNCHANGED mainVars

\* somebody creates or removes a file of the tree, while the clock ticks
ChangeTree ==
    /\ now < MaxTime
    /\ now' = now + 1
    /\ \E p \in Paths :
         fs' = [fs EXCEPT ![p] = IF fs[p].exists THEN Absent ELSE Written("y1", 1)]
    /\ UNCHANGED <<scratch, last, calls>>
    /\ UNCHANGED batchVars
    /\ UNCHANGED mainVars

NextFind == CallFindFiles \/ ChangeTree
SpecFind == InitFind /\ [][NextFind]_vars

\* ------------------------------------------ SpecExport: to_act_format by steps
\* One call of to_act_format on a secrets file, with an output file that may
\* be there already; the call is taken statement by statement, since the
\* output file can be read by anyone between two of them.
SecretsFile == <<UnitStem, "enc">>
OldText == <<"O", "L", "D", "=", "1">>
OutFiles ==
    { NoOut, [exists |-> TRUE, data |-> OldText, mode |-> "0644"],
      [exists |-> TRUE, data |-> OldText, mode |-> "0600"],
      [exists |-> TRUE, data |-> OldText, mode |-> "0666"],
      [exists |-> TRUE, data |-> <<>>, mode |-> "0644"] }

ExportAt(at) == last.op = "to_act_format" /\ last.at = at
ExportReturns(ret, why) == [last EXCEPT !.at = "returned", !.ret = ret, !.why = why]

InitExport ==
    /\ \E e \in EncFiles :
         fs = [p \in Paths |-> IF p = SecretsFile THEN e ELSE Absent]
    /\ now = 1 /\ scratch = 0 /\ calls = 0
    /\ InitBatch
    /\ max_workers = DefaultMaxWorkers
    /\ probe = [run |-> Exit(0, "sops 3"), ret |-> "True"]
    /\ env = "profile" /\ exitcode = NoExit /\ conv = NoConv(NoneVal)
    /\ wrappers = <<Wrapper("profile")>>
    /\ \E o \in OutFiles :
         /\ out = o
         /\ last = [op |-> "to_act_format", at |-> "start", ret |-> FALSE,
                    why |-> "none", run |-> Timeout, text |-> <<>>, w |-> "ok",
                    ch |-> TRUE, pre |-> o]

\* lines 458-477: the existence test and the run of the tool
ExportDecrypt_Truncating ==
    /\ ExportAt("start")
    /\ IF ~fs[SecretsFile].exists
       THEN last' = ExportReturns(FALSE, "missing") /\ out' = out
       ELSE \E r \in DecryptRuns(fs[SecretsFile]) :
              IF ToolFailed(r)
              THEN /\ last' = [ExportReturns(FALSE, "decrypt") EXCEPT !.run = r]
                   /\ out' = [exists |-> TRUE, data |-> <<>>,
                              mode |-> IF out.exists THEN out.mode ELSE "umask"]
              ELSE /\ last' = [last EXCEPT !.at = "decrypted", !.run = r]
                   /\ out' = out
    /\ UNCHANGED <<fs, now, scratch, calls>>
    /\ UNCHANGED batchVars
    /\ UNCHANGED <<max_workers, probe, env, exitcode, conv, wrappers>>

ExportDecrypt ==
    /\ ExportAt("start")
    /\ IF ~fs[SecretsFile].exists
       THEN last' = ExportReturns(FALSE, "missing")
       ELSE \E r \in DecryptRuns(fs[SecretsFile]) :
              IF ToolFailed(r)
              THEN last' = [ExportReturns(FALSE, "decrypt") EXCEPT !.run = r]
              ELSE last' = [last EXCEPT !.at = "decrypted", !.run = r]
    /\ UNCHANGED <<fs, now, scratch, calls>>
    /\ UNCHANGED batchVars
    /\ UNCHANGED mainVars

\* line 480: the conversion, whose ValueError is caught at 516-518
ExportConvert ==
    /\ ExportAt("decrypted")
    /\ LET e == YamlToEnvFormat(SafeLoad(last.run.stdout), ActSection) IN
         IF e.raised
         THEN last' = ExportReturns(FALSE, "convert")
         ELSE last' = [last EXCEPT !.at = "converted", !.text = e.text]
    /\ UNCHANGED <<fs, now, scratch, calls>>
    /\ UNCHANGED batchVars
    /\ UNCHANGED mainVars

\* lines 487-488: open(output_path, "w") and f.write(env_content)
ExportWrite ==
    /\ ExportAt("converted")
    /\ \E w \in WriteOutcomes :
         LET mode == IF out.exists THEN out.mode ELSE "umask" IN
           IF w = "open_fail"
           THEN /\ last' = [ExportReturns(FALSE, "open") EXCEPT !.w = w]
                /\ out' = out
           ELSE IF w = "write_fail"
           THEN /\ last' = [ExportReturns(FALSE, "write") EXCEPT !.w = w]
                /\ out' = [exists |-> TRUE, data |-> <<>>, mode |-> mode]
           ELSE /\ last' = [last EXCEPT !.at = "written"]
                /\ out' = [exists |-> TRUE, data |-> last.text, mode |-> mode]
    /\ UNCHANGED <<fs, now, scratch, calls>>
    /\ UNCHANGED batchVars
    /\ UNCHANGED <<max_workers, probe, env, exitcode, conv, wrappers>>

\* line 491: output_path.chmod(0o600), then the report and return True
ExportChmod ==
    /\ ExportAt("written")
    /\ \E ch \in BOOLEAN :
         IF ch
         THEN /\ last' = ExportReturns(TRUE, "none")
              /\ out' = [out EXCEPT !.mode = "0600"]
         ELSE /\ last' = [ExportReturns(FALSE, "chmod") EXCEPT !.ch = FALSE]
              /\ out' = out
    /\ UNCHANGED <<fs, now, scratch, calls>>
    /\ UNCHANGED batchVars
    /\ UNCHANGED <<max_workers, probe, env, exitcode, conv, wrappers>>

NextExport == ExportDecrypt \/ ExportConvert \/ ExportWrite \/ ExportChmod
SpecExport == InitExport /\ [][NextExport]_vars

\* ------------------------------- SpecProfiles: wrappers sharing AWS_PROFILE
\* Wrappers are constructed and cleaned up in one process, in any order;
\* os.environ is the process's, shared by all of them.
MaxWrappers == 2  \* wrappers constructed in one process
Profiles == {"profile", "second"}

\* cleanup(): del os.environ["AWS_PROFILE"] when it holds self.aws_profile
Cleanup_Always(value, aws_profile) == "unset"

Cleanup(value, aws_profile) == IF value = aws_profile THEN "unset" ELSE value

ProfileCall(op, w, aws_profile) ==
    [op |-> op, w |-> w, aws_profile |-> aws_profile, before |-> env,
     first |-> IF last.op = "none" THEN env ELSE last.first]

InitProfiles ==
    /\ fs = [p \in Paths |-> Absent]
    /\ now = 1 /\ scratch = 0 /\ calls = 0
    /\ last = [op |-> "none", w |-> 0, aws_profile |-> "", before |-> "unset",
               first |-> "unset"]
    /\ InitBatch
    /\ max_workers = DefaultMaxWorkers
    /\ probe = NoProbe /\ out = NoOut /\ exitcode = NoExit
    /\ conv = NoConv(NoneVal)
    /\ env \in {"unset", "other"} \cup Profiles
    /\ wrappers = <<>>

\* SOPSWrapper(aws_profile): the profile is exported, then the tool is
\* probed; the object exists when the probe answered True
NewWrapper ==
    /\ Len(wrappers) < MaxWrappers
    /\ \E aws_profile \in Profiles, r \in ProbeRuns :
         LET a == CheckSopsAvailable(r) IN
           /\ env' = aws_profile
           /\ probe' = [run |-> r, ret |-> a]
           /\ wrappers' = IF a = "True" THEN Append(wrappers, Wrapper(aws_profile))
                          ELSE wrappers
           /\ last' = ProfileCall("init", IF a = "True" THEN Len(wrappers) + 1 ELSE 0,
                                  aws_profile)
    /\ UNCHANGED <<fs, now, scratch, calls>>
    /\ UNCHANGED batchVars
    /\ UNCHANGED <<max_workers, out, exitcode, conv>>

\* w.cleanup(), on any wrapper, any number of times
CallCleanup ==
    /\ calls < MaxCalls
    /\ \E w \in DOMAIN wrappers :
         /\ env' = Cleanup(env, wrappers[w].aws_profile)
         /\ last' = ProfileCall("cleanup", w, wrappers[w].aws_profile)
    /\ calls' = calls + 1
    /\ UNCHANGED <<fs, now, scratch>>
    /\ UNCHANGED batchVars
    /\ UNCHANGED <<max_workers, probe, out, exitcode, conv, wrappers>>

NextProfiles == NewWrapper \/ CallCleanup
SpecProfiles == InitProfiles /\ [][NextProfiles]_vars

\* ------------------------------------------------------- the converter
\* _yaml_to_env_format called on every document of a bounded set, as the
\* unit tests call it.
MaxEntries == 2  \* the most entries a section has

\* the values of a section: strings that are plain, hold a space, a tab, a
\* newline or one of the special characters, or are empty; an int, a bool,
\* None; lists and dicts
Values ==
    { StrVal(<<"a", "d", "m", "i", "n">>), StrVal(<<"a", " ", "b">>),
      StrVal(<<"a", "\t", "b">>), StrVal(<<"a", "\n", "b">>),
      StrVal(<<"$", "a">>), StrVal(<<"a", "\"">>), StrVal(<<"a", "'">>),
      StrVal(<<Backtick, "a">>), StrVal(<<"a", "\\", "b">>), StrVal(<<>>),
      IntVal(3), BoolVal(TRUE), NoneVal,
      ListVal(<<IntVal(1)>>), ListVal(<<IntVal(1), StrVal(<<"a">>)>>),
      DictVal(<<>>), DictVal(<<Entry(StrVal(<<"a">>), IntVal(1))>>) }

\* the keys of a section; YAML also allows keys that are not strings
SectionKeys ==
    { StrVal(<<"d", "b", "_", "u", "s", "e", "r">>),
      StrVal(<<"c", "o", "u", "n", "t">>), IntVal(1) }

\* the mappings with at most max entries, keys distinct, in every order
SectionMaps(max) ==
    UNION { {es \in [1..n -> [key : SectionKeys, val : Values]] :
               \A i, j \in 1..n : i # j => es[i].key # es[j].key}
            : n \in 0..max }

\* what the act key of a document can hold, and the other top-level entries
ActValues(max) ==
    {DictVal(es) : es \in SectionMaps(max)}
      \cup {NoneVal, IntVal(3), StrVal(<<"x">>), ListVal(<<IntVal(1)>>)}
ActEntries(max) == {Entry(StrVal(ActSection), v) : v \in ActValues(max)}
OtherEntries ==
    { Entry(StrVal(<<"A", "p", "i">>), StrVal(<<"v">>)),
      Entry(StrVal(<<"A", "p", "i">>), StrVal(<<"a", " ", "b">>)),
      Entry(IntVal(1), StrVal(<<"v">>)) }

\* what yaml.safe_load can give: an error, a value that is not a mapping,
\* or a mapping with or without an act entry; the act entries that stand
\* next to another entry have a section of at most one entry
Documents(max) ==
    {Unparsable, NoneVal, StrVal(<<"x">>), ListVal(<<IntVal(1)>>), DictVal(<<>>)}
      \cup {DictVal(<<a>>) : a \in ActEntries(max)}
      \cup {DictVal(<<o>>) : o \in OtherEntries}
      \cup {DictVal(<<a, o>>) : a \in ActEntries(1), o \in OtherEntries}
      \cup {DictVal(<<o, a>>) : a \in ActEntries(1), o \in OtherEntries}

\* "act" is the default and what to_act_format passes
Sections == {ActSection, CiSection}

InitEnv ==
    /\ fs = [p \in Paths |-> Absent]
    /\ now = 1 /\ scratch = 0 /\ last = NoCall /\ calls = 0
    /\ InitBatch
    /\ max_workers = DefaultMaxWorkers
    /\ probe = [run |-> Exit(0, "sops 3"), ret |-> "True"]
    /\ env = "profile" /\ out = NoOut /\ exitcode = NoExit
    /\ wrappers = <<Wrapper("profile")>>
    /\ \E d \in Documents(MaxEntries) : conv = NoConv(d)

CallYamlToEnvFormat ==
    /\ ~conv.called
    /\ \E section \in Sections :
         LET e == YamlToEnvFormat(conv.data, section) IN
           conv' = [data |-> conv.data, section |-> section, called |-> TRUE,
                    raised |-> e.raised, text |-> e.text]
    /\ UNCHANGED <<max_workers, probe, env, out, exitcode, wrappers>>
    /\ UNCHANGED batchVars
    /\ UNCHANGED unitVars

NextEnv == CallYamlToEnvFormat
SpecEnv == InitEnv /\ [][NextEnv]_vars

\* ------------------------------------------- the health-check middleware
\* Header and path texts are sequences of characters; an address text is
\* what ipaddress.ip_address makes of it: an IPv4 address with its octets, an
\* IPv6 address, or a text that is no address (the empty text included).
V4(a, b, c, d) == [kind |-> "v4", octets |-> <<a, b, c, d>>, text |-> <<>>]
V6Loopback == [kind |-> "v6", octets |-> <<>>, text |-> <<":", ":", "1">>]
NoAddress(t) == [kind |-> "text", octets |-> <<>>, text |-> t]
EmptyText == NoAddress(<<>>)

\* request.META holds a header or not; META.get(name, default)
Header(v) == [present |-> TRUE, value |-> v]
NoHeader(default) == [present |-> FALSE, value |-> default]
MetaGet(h, default) == IF h.present THEN h.value ELSE default

Network(a, b, c, d, prefix) == [net |-> <<a, b, c, d>>, prefix |-> prefix]
allowed_networks ==
    << Network(10, 0, 0, 0, 8), Network(172, 16, 0, 0, 12),
       Network(192, 168, 0, 0, 16), Network(127, 0, 0, 0, 8) >>

\* bit i (1 is the most significant) of a four-octet address
Bit(o, i) == (o[((i - 1) \div 8) + 1] \div (2 ^ (7 - ((i - 1) % 8)))) % 2
InNetwork(ip, n) ==
    /\ ip.kind = "v4"
    /\ \A i \in 1..n.prefix : Bit(ip.octets, i) = Bit(n.net, i)

is_allowed_ip(ip) ==
    IF ip.kind = "text" THEN FALSE
    ELSE \E k \in DOMAIN allowed_networks : InNetwork(ip, allowed_networks[k])

\* An X-Forwarded-For header is its comma-separated entries, each with or
\* without blanks around it; the header with no entry is the empty text.
XffEntry(ip, padded) == [ip |-> ip, padded |-> padded]
Strip(e) == e.ip

get_client_ip(meta) ==
    IF meta.x_forwarded_for.present /\ meta.x_forwarded_for.value # <<>>
    THEN Strip(Head(meta.x_forwarded_for.value))
    ELSE MetaGet(meta.remote_addr, EmptyText)

StartsWith(s, prefix) ==
    Len(s) >= Len(prefix) /\ SubSeq(s, 1, Len(prefix)) = prefix
Contains(s, sub) ==
    \E i \in 0..(Len(s) - Len(sub)) : SubSeq(s, i + 1, i + Len(sub)) = sub

HealthPrefix == <<"/", "h", "e", "a", "l", "t", "h", "/">>
ElbMarker ==
    <<"E", "L", "B", "-", "H", "e", "a", "l", "t", "h",
      "C", "h", "e", "c", "k", "e", "r">>

MiddlewareCall(request) ==
    LET user_agent == MetaGet(request.META.user_agent, <<>>)
    IN IF StartsWith(request.path, HealthPrefix)
       THEN IF Contains(user_agent, ElbMarker)
            THEN [response |-> "application", reached |-> TRUE]
            ELSE IF ~is_allowed_ip(get_client_ip(request.META))
                 THEN [response |-> "forbidden", reached |-> FALSE]
                 ELSE [response |-> "application", reached |-> TRUE]
       ELSE [response |-> "application", reached |-> TRUE]

\* the requests
RequestPaths ==
    { HealthPrefix, HealthPrefix \o <<"r", "e", "a", "d", "y">>,
      <<"/", "h", "e", "a", "l", "t", "h">>, <<"/">>,
      <<"/", "a">> \o HealthPrefix }
UserAgents ==
    {NoHeader(<<>>)} \cup
    { Header(t) : t \in
        { <<>>, <<"c", "u", "r", "l">>, ElbMarker \o <<"/", "2">>,
          <<"x", " ">> \o ElbMarker,
          <<"e", "l", "b", "-", "h", "e", "a", "l", "t", "h",
            "c", "h", "e", "c", "k", "e", "r">> } }
Addresses ==
    { V4(10, 0, 0, 1), V4(9, 255, 255, 255), V4(11, 0, 0, 0),
      V4(172, 16, 0, 0), V4(172, 31, 255, 255), V4(172, 15, 255, 255),
      V4(172, 32, 0, 0), V4(192, 168, 1, 1), V4(192, 169, 0, 0),
      V4(127, 0, 0, 1), V4(128, 0, 0, 0), V4(8, 8, 8, 8) }
AddressTexts ==
    Addresses \cup {V6Loopback, EmptyText, NoAddress(<<"x">>)}
ForwardedFor ==
    {NoHeader(<<>>), Header(<<>>)}
      \cup { Header(<<XffEntry(a, p)>>) : a \in AddressTexts, p \in BOOLEAN }
      \cup { Header(<<XffEntry(a, TRUE), XffEntry(b, FALSE)>>) :
               a \in {V4(10, 0, 0, 1), V4(8, 8, 8, 8)},
               b \in {V4(10, 0, 0, 1), V4(8, 8, 8, 8)} }
RemoteAddrs ==
    {NoHeader(EmptyText)} \cup
    { Header(a) : a \in {V4(10, 0, 0, 1), V4(8, 8, 8, 8), V4(127, 0, 0, 1)} }
Requests ==
    [ path : RequestPaths,
      META : [ user_agent : UserAgents, x_forwarded_for : ForwardedFor,
               remote_addr : RemoteAddrs ] ]

\* One request arrives and the middleware answers it.
InitMiddleware ==
    /\ fs = [p \in Paths |-> Absent]
    /\ now = 1 /\ scratch = 0 /\ calls = 0
    /\ \E request \in Requests :
         last = [op |-> "request", request |-> request,
                 response |-> "none", reached |-> FALSE]
    /\ InitBatch
    /\ max_workers = DefaultMaxWorkers /\ Constructed

CallMiddleware ==
    /\ last.op = "request"
    /\ LET r == MiddlewareCall(last.request) IN
         last' = [last EXCEPT !.op = "middleware", !.response = r.response,
                              !.reached = r.reached]
    /\ UNCHANGED <<fs, now, scratch, calls>>
    /\ UNCHANGED batchVars
    /\ UNCHANGED mainVars

NextMiddleware == CallMiddleware
SpecMiddleware == InitMiddleware /\ [][NextMiddleware]_vars

\* ------------------------------------------------ properties of the commands
Ended == pc \in {"returned", "raised"}
Succeeded == {i \in 1..Len(futures) : futures[i].st = "done" /\ futures[i].ret}
\* the discovered files the command has dealt with: the detector decided to
\* skip them, or their task ran to its end
Handled ==
    log[run].skipped \cup {futures[i].src[1] : i \in {j \in 1..Len(futures) :
                                                      futures[j].st = "done"}}

\* C4: a per-file error, in the detector or in the runner, never aborts a
\* batch: the command returns, every discovered file has been processed and
\* the returned total counts each task that succeeded.
C4_FailureIsolation ==
    /\ pc \notin {"unwind", "raised"}
    /\ pc = "returned" =>
         /\ log[run].found \subseteq Handled
         /\ count = Cardinality(Succeeded)

\* what does hold: a command that returns has processed every discovered
\* file and counted every success
ReturnedBatchIsComplete ==
    pc = "returned" =>
      /\ log[run].found \subseteq Handled
      /\ count = Cardinality(Succeeded)

\* C13: encrypt_files, decrypt_files and updatekeys_files queue every task
\* before awaiting any result, run the operation runner exactly once per
\* submitted pair, and return only after every submitted task has completed;
\* the returned count is the number of submitted tasks that returned True.
C13_JoinAll ==
    /\ joined > 0 => (files = <<>> /\ pc \in {"join", "returned"})
    /\ \A i \in 1..Len(futures) :
         futures[i].n = IF futures[i].st = "done" THEN 1 ELSE 0
    /\ (pc = "returned" /\ run > 0) =>
         /\ \A i \in 1..Len(futures) : futures[i].st = "done" /\ futures[i].n = 1
         /\ joined = Len(futures)
         /\ count = Cardinality({i \in 1..Len(futures) : futures[i].ret})

\* a command returned 1 after two tasks, one True and one False
C13_Witness ==
    /\ pc = "returned" /\ cmd \in {"decrypt", "updatekeys"}
    /\ Len(futures) = 2 /\ count = 1
    /\ futures[1].ret /\ ~futures[2].ret

\* C15: at every moment of a batch at most max_workers (default 4) runner
\* invocations are executing, however many files were submitted, and the pool
\* exists only for the duration of the one batch call: no task is queued or
\* running before the call or once it has returned or raised.
C15_BoundedPool ==
    /\ max_workers \in 1..MaxWorkers \cup {DefaultMaxWorkers}
    /\ Cardinality(Running) <= max_workers
    /\ pc \in {"idle", "returned", "raised"} =>
          \A i \in 1..Len(futures) : futures[i].st = "done"

\* the pool is full: every file is submitted, max_workers tasks run and
\* another one waits in the queue
C15_Witness ==
    /\ pc = "join" /\ Len(futures) > max_workers
    /\ Cardinality(Running) = max_workers
    /\ \E i \in 1..Len(futures) : futures[i].st = "queued"

\* C16: for any two distinct files discovered in one encrypt or decrypt
\* batch, for any pattern and any file names, the target paths of their tasks
\* are distinct, and each task's target differs from its own source: no two
\* tasks write the same file and no task overwrites its input.
C16_DistinctTargets ==
    cmd \in {"encrypt", "decrypt"} =>
      \A i, j \in 1..Len(futures) :
        /\ futures[i].dst # futures[i].src
        /\ i # j => futures[i].dst # futures[j].dst

\* what does hold: the targets are distinct and differ from the sources
\* when the pattern is the default one of the command
DistinctTargetsDefaultPattern ==
    (\/ cmd = "encrypt" /\ log[run].pattern = "dec"
     \/ cmd = "decrypt" /\ log[run].pattern = "enc") =>
      \A i, j \in 1..Len(futures) :
        /\ futures[i].dst # futures[i].src
        /\ i # j => futures[i].dst # futures[j].dst

\* what encrypt_files does when no task runs before the loop has ended and
\* the tool works: the files it submits, and the content of each file after
SeqToSet(q) == {q[i] : i \in 1..Len(q)}
ExpectedSubmitted(f0, pattern) ==
    {p \in SeqToSet(FindFiles(f0, pattern)) :
        ShouldEncrypt(f0[p], f0[EncName(p)], FixedDecryptRun(f0[EncName(p)]),
                      TRUE, "ok", TRUE).decision}
ExpectedData(f0, pattern, q) ==
    LET from == {p \in ExpectedSubmitted(f0, pattern) :
                   EncName(p) = q /\ f0[p].data \in Plain} IN
    IF from = {} THEN <<f0[q].exists, f0[q].data>>
    ELSE <<TRUE, SopsEncrypt(f0[CHOOSE p \in from : TRUE].data)>>

\* C17: for a fixed initial filesystem and fixed per-file tool outcomes, the
\* set of files submitted, the returned count and the final content of every
\* file are the same under every interleaving of the worker tasks with each
\* other and with the detector evaluations of the submitting thread: they
\* are those of the run in which no task starts before the loop has ended.
C17_Independence ==
    (cmd = "encrypt" /\ pc = "returned" /\ log[run].nominal = Stems) =>
      LET f0 == log[run].before
          exp == ExpectedSubmitted(f0, log[run].pattern) IN
        /\ {futures[i].src : i \in 1..Len(futures)} = exp
        /\ count = Cardinality({p \in exp : f0[p].data \in Plain})
        /\ \A q \in Paths :
             <<fs[q].exists, fs[q].data>> = ExpectedData(f0, log[run].pattern, q)

\* the denominator of the closing log line of encrypt_files: len(futures)
Attempted == Len(futures)
Submitted == {futures[i].src[1] : i \in 1..Len(futures)}

\* C14: encrypt_files submits an operation for exactly those discovered
\* files whose detector decision is should-encrypt; attempted is that number
\* (not the number discovered), succeeded is the number of submitted
\* operations that returned True, succeeded <= attempted <= discovered, and
\* no skipped file causes an encrypt invocation.
C14_EncryptAggregation ==
    (cmd = "encrypt" /\ run > 0) =>
      /\ Submitted = log[run].decided \ log[run].skipped
      /\ Attempted = Cardinality(Submitted)
      /\ log[run].invoked \subseteq Submitted
      /\ log[run].invoked \cap log[run].skipped = {}
      /\ pc = "returned" =>
           /\ log[run].decided = log[run].found
           /\ count = Cardinality({i \in 1..Len(futures) : futures[i].ret})
           /\ count <= Attempted
           /\ Attempted <= Cardinality(log[run].found)

\* two files discovered, one skipped, one submitted and encrypted: 1/1
C14_Witness ==
    /\ pc = "returned" /\ cmd = "encrypt"
    /\ Cardinality(log[run].found) = 2 /\ Cardinality(log[run].skipped) = 1
    /\ Attempted = 1 /\ count = 1

\* C5: for a well-formed plaintext with no ciphertext and a tool whose
\* decrypt inverts its encrypt, two successive encrypt_files runs with the
\* plaintext unchanged in between invoke the tool's encrypt for that file in
\* the first run and not in the second.
TwoRunsOver(s) ==
    /\ Len(log) = 2 /\ Ended
    /\ s \in log[1].fresh
    /\ s \notin log[1].edited
    /\ s \in log[1].nominal /\ s \in log[2].nominal

C5_Idempotence ==
    \A s \in Stems :
      TwoRunsOver(s) => (s \in log[1].invoked /\ s \notin log[2].invoked)

\* what does hold: idempotence for every file of a first run that returned
IdempotenceWhenReturned ==
    \A s \in Stems :
      (TwoRunsOver(s) /\ log[1].ended = "returned")
        => (s \in log[1].invoked /\ s \notin log[2].invoked)

ToolInvoked ==
    \/ \E n \in 1..Len(log) : log[n].tool
    \/ \E i \in 1..Len(futures) : futures[i].n > 0
OperationPerformed == run > 0 \/ futures # <<>> \/ ToolInvoked \/ out # NoOut

\* C18: in any run, no encrypt, decrypt, updatekeys or export invocation of
\* the tool happens unless the availability probe returned True earlier in
\* that run; when the probe reports unavailable, the construction raises
\* RuntimeError and the command line exits with status 1 having performed no
\* operation.
C18_ProbeGating ==
    /\ (ToolInvoked \/ run > 0) => probe.ret = "True"
    /\ probe.ret = "False" =>
         (pc = "exited" /\ exitcode = 1 /\ ~OperationPerformed)

\* the tool takes too long to answer the version query: exit 1, nothing done
C18_Witness ==
    /\ probe.ret = "False" /\ probe.run.kind = "timeout"
    /\ pc = "exited" /\ exitcode = 1 /\ ~OperationPerformed

\* C19: _check_sops_available returns True exactly when the version query
\* exits 0, and returns False without raising when the executable is not
\* found, the query times out, or it exits non-zero.
C19_ProbeResult ==
    probe.ret # "none" =>
      /\ probe.ret = "True" <=> (probe.run.kind = "exit" /\ probe.run.rc = 0)
      /\ (\/ probe.run.kind \in {"notfound", "timeout"}
          \/ probe.run.kind = "exit" /\ probe.run.rc # 0) => probe.ret = "False"

\* the version query exits non-zero and the probe answers False
C19_Witness ==
    /\ probe.run.kind = "exit" /\ probe.run.rc # 0
    /\ probe.ret = "False"

\* an operation of the batch returned success (for export: it succeeded)
SomeSuccess ==
    \/ \E i \in 1..Len(futures) : futures[i].st = "done" /\ futures[i].ret
    \/ cmd = "to-act" /\ count > 0

\* C20: the command line exits 0 if and only if at least one operation of
\* the batch returned success (for export: if and only if the export
\* succeeded), and 1 otherwise, however many operations failed; it exits 1
\* when every discovered file was skipped and when no file matched.
C20_ExitStatus ==
    (pc = "exited" /\ probe.ret = "True" /\ log[run].ended # "cancelled") =>
      /\ exitcode \in {0, 1}
      /\ exitcode = 0 <=> SomeSuccess

\* what does hold: the exit status of a command that returned
ExitStatusWhenReturned ==
    (pc = "exited" /\ probe.ret = "True" /\ log[run].ended = "returned") =>
      /\ exitcode \in {0, 1}
      /\ exitcode = 0 <=> SomeSuccess

\* C21: a user interrupt raised while a batch is running makes the command
\* line exit with status 130, not 0 or 1, and the wrapper's cleanup runs
\* before the process exits.
WasInterrupted == run > 0 /\ log[run].ended = "cancelled"

C21_InterruptStatus ==
    /\ pc = "cancelled" => env = "profile"
    /\ (pc = "exited" /\ WasInterrupted) =>
         (exitcode = 130 /\ env # "profile")

\* interrupted after a task had returned True: the status is still 130
C21_Witness ==
    /\ pc = "exited" /\ WasInterrupted /\ exitcode = 130 /\ env = "unset"
    /\ \E i \in 1..Len(futures) : futures[i].ret

\* C22: once a user interrupt arrives during a batch, the batch aborts
\* early: the operations that were queued and not yet started when the
\* interrupt arrived are not started afterwards; only operations already in
\* flight may still run to completion.
C22_EarlyAbort ==
    \A n \in 1..Len(log) :
      (n = run /\ pc \in {"interrupted", "cancelled", "exited"}) =>
         \A i \in log[n].pending : futures[i].st = "queued"

\* C23: AWS_PROFILE holds the wrapper's profile from construction onward
\* while the run is in progress, and after the run has ended by any path
\* (success, all failed, unexpected error, user interrupt, or tool
\* unavailable at startup) AWS_PROFILE no longer holds that profile.
C23_ProfileScope ==
    /\ pc \notin {"start", "exited"} => env = "profile"
    /\ pc = "exited" => env # "profile"

\* the same, for the runs whose construction succeeded
ProfileScopeWhenConstructed ==
    /\ pc \notin {"start", "exited"} => env = "profile"
    /\ (pc = "exited" /\ probe.ret = "True") => env # "profile"

\* ------------------------------------------- properties of the converter
ConvIsMapping == conv.called /\ conv.data.t = "dict"
SectionIdx ==
    {i \in 1..Len(conv.data.entries) :
       /\ conv.data.entries[i].key.t = "str"
       /\ conv.data.entries[i].key.s = conv.section}
SectionPresent == SectionIdx # {}
SectionValue == conv.data.entries[CHOOSE i \in SectionIdx : TRUE].val
SectionIsMapping == SectionPresent /\ SectionValue.t = "dict"
StringKeys(es) == \A i \in 1..Len(es) : es[i].key.t = "str"
Exported(es) == JoinText([i \in 1..Len(es) |-> EnvLine(es[i])], <<"\n">>)
Newlines(s) == Cardinality({i \in 1..Len(s) : s[i] = "\n"})

\* C27: if the requested section is absent from the top level of the
\* document, or present but not a mapping, the converter exports the
\* entries of the entire document; only when the section is a mapping are
\* its own entries the ones exported.
C27_SectionFallback ==
    ConvIsMapping =>
      LET es == IF SectionIsMapping THEN SectionValue.entries
                ELSE conv.data.entries
      IN StringKeys(es) => (~conv.raised /\ conv.text = Exported(es))

\* the same, for the documents that have the section
SectionFallbackWhenPresent ==
    (ConvIsMapping /\ SectionPresent) =>
      LET es == IF SectionIsMapping THEN SectionValue.entries
                ELSE conv.data.entries
      IN StringKeys(es) => (~conv.raised /\ conv.text = Exported(es))

\* what the code does when the section is absent: nothing is exported
NothingExportedWhenAbsent ==
    (ConvIsMapping /\ ~SectionPresent) => (~conv.raised /\ conv.text = <<>>)

\* C28: for a section that is a mapping, the converter emits exactly one
\* KEY=value line per entry of that section, in document order, with the
\* key upper-cased and the value stringified, joined by single newlines
\* with no trailing newline.
C28_LinePerEntry ==
    (ConvIsMapping /\ SectionIsMapping) =>
      LET es == SectionValue.entries IN
        /\ ~conv.raised
        /\ StringKeys(es)
        /\ conv.text = Exported(es)
        /\ Newlines(conv.text) = IF es = <<>> THEN 0 ELSE Len(es) - 1

\* the same, for sections whose keys are strings and whose values, once
\* stringified, hold no newline
LinePerEntryOnOneLineValues ==
    (ConvIsMapping /\ SectionIsMapping) =>
      LET es == SectionValue.entries IN
        (StringKeys(es) /\ \A i \in 1..Len(es) : Newlines(EnvValue(es[i].val)) = 0)
          => /\ ~conv.raised
             /\ conv.text = Exported(es)
             /\ Newlines(conv.text) = IF es = <<>> THEN 0 ELSE Len(es) - 1

\* C29: an emitted value is wrapped in double quotes exactly when its
\* stringified form contains whitespace (space, tab or newline) or one of
\* the characters " ' $ \ and the grave accent; otherwise it is emitted
\* bare; inside the quotes the characters are unchanged.
MustQuote(s) ==
    \E i \in 1..Len(s) : s[i] \in {" ", "\t", "\n", "\"", "'", "$", Backtick, "\\"}
QuotedLine(e) ==
    LET v == EnvValue(e.val) IN
    Upper(e.key.s) \o <<"=">>
      \o (IF MustQuote(v) THEN <<"\"">> \o v \o <<"\"">> ELSE v)

C29_QuotingRule ==
    (ConvIsMapping /\ SectionIsMapping /\ ~conv.raised) =>
      LET es == SectionValue.entries IN
        conv.text = JoinText([i \in 1..Len(es) |-> QuotedLine(es[i])], <<"\n">>)

\* the same, for values that hold no tab and no newline
QuotingRuleWithoutTabNewline ==
    (ConvIsMapping /\ SectionIsMapping /\ ~conv.raised) =>
      LET es == SectionValue.entries IN
        (\A i \in 1..Len(es) : \A j \in 1..Len(EnvValue(es[i].val)) :
            EnvValue(es[i].val)[j] \notin {"\t", "\n"})
          => conv.text =
               JoinText([i \in 1..Len(es) |-> QuotedLine(es[i])], <<"\n">>)

\* C30: after to_act_format returns True, the output file exists, contains
\* the converted env text, and its permissions are exactly 0600.
ExportSucceeded ==
    run > 0 /\ log[run].cmd = "to-act" /\ pc \in {"returned", "exited"} /\ count > 0

C30_ExportedFile ==
    ExportSucceeded =>
      /\ out.exists
      /\ out.mode = "0600"
      /\ out.data = YamlToEnvFormat(SafeLoad(log[run].doc), ActSection).text
      /\ log[run].doc = "y1" =>
           out.data = <<"D", "B", "_", "U", "S", "E", "R", "=", "a", "d", "m", "i", "n",
                        "\n", "C", "O", "U", "N", "T", "=", "3">>

\* {act: {db_user: admin, count: 3}} exported
C30_Witness ==
    /\ ExportSucceeded /\ log[run].doc = "y1"
    /\ out.exists /\ out.mode = "0600" /\ Len(out.data) > 0

\* C31: the section argument of the export selects the subsection that is
\* exported: for two section names naming two different mappings of the
\* same decrypted document, to_act_format writes the entries of the named
\* section in each case.
NamedSection ==
    LET data == SafeLoad(log[run].doc)
        idx == {i \in 1..Len(data.entries) :
                  data.entries[i].key = StrVal(log[run].section)}
    IN data.entries[CHOOSE i \in idx : TRUE].val

HasNamedSection ==
    LET data == SafeLoad(log[run].doc) IN
      /\ data.t = "dict"
      /\ \E i \in 1..Len(data.entries) :
           /\ data.entries[i].key = StrVal(log[run].section)
           /\ data.entries[i].val.t = "dict"

C31_SectionSelects ==
    (ExportSucceeded /\ HasNamedSection) =>
      out.data = JoinText([i \in 1..Len(NamedSection.entries) |->
                             EnvLine(NamedSection.entries[i])], <<"\n">>)

\* the same, for the exports of the act section
ActSectionExported ==
    (ExportSucceeded /\ HasNamedSection /\ log[run].section = ActSection) =>
      out.data = JoinText([i \in 1..Len(NamedSection.entries) |->
                             EnvLine(NamedSection.entries[i])], <<"\n">>)

\* ------------------------------------------------ properties of discovery
\* C32: find_files returns exactly the paths under base_dir that match the
\* pattern, without duplicates and in ascending sorted order; two calls on
\* an unchanged directory tree return identical lists.
PathBefore(p, q) ==
    \/ p[1] < q[1]
    \/ p[1] = q[1] /\ p[2] = "dec" /\ q[2] = "enc"

C32_Discovery ==
    \A n \in 1..Len(log) :
      LET q == log[n].listed IN
        /\ {q[i] : i \in 1..Len(q)} =
             {p \in Paths : /\ log[n].before[p].exists
                            /\ log[n].pattern \in {"any", p[2]}}
        /\ \A i, j \in 1..Len(q) : i < j => PathBefore(q[i], q[j])
        /\ \A m \in 1..Len(log) :
             (log[m].before = log[n].before /\ log[m].pattern = log[n].pattern)
               => log[m].listed = q

\* two calls on the same tree of at least three matching files
C32_Witness ==
    /\ Len(log) = 2
    /\ log[1].before = log[2].before /\ log[1].pattern = "any" /\ log[2].pattern = "any"
    /\ Len(log[1].listed) >= 3 /\ log[2].listed = log[1].listed

\* ------------------------------------------- properties of the empty batch
\* C33: when discovery returns no file, encrypt_files, decrypt_files and
\* updatekeys_files invoke no tool operation and return 0, and the
\* invocation is not reported as an error: its exit status is not the
\* failure status used when operations fail.
NothingFound ==
    /\ run > 0 /\ log[run].cmd \in {"encrypt", "decrypt", "updatekeys"}
    /\ log[run].listed = <<>>

C33_NothingToDo ==
    NothingFound =>
      /\ ~log[run].tool /\ futures = <<>>
      /\ pc \in {"returned", "exited"} /\ log[run].ended = "returned" /\ count = 0
      /\ pc = "exited" => exitcode # 1

\* C33, amended: when discovery returns no file, the three commands invoke no
\* tool operation, return 0 and raise nothing; the command line then exits
\* with status 1, as whenever no operation succeeded.
C33_NothingToDoExitsOne ==
    NothingFound =>
      /\ ~log[run].tool /\ futures = <<>>
      /\ pc \in {"returned", "exited"} /\ log[run].ended = "returned" /\ count = 0
      /\ pc = "exited" => exitcode = 1

\* a decrypt in a directory without ciphertexts, after the exit
C33_Witness ==
    /\ NothingFound /\ log[run].cmd = "decrypt"
    /\ \E p \in Paths : fs[p].exists
    /\ pc = "exited" /\ exitcode = 1 /\ count = 0

\* --------------------------------------------- properties of the validator
\* C34: _is_file_not_empty and _is_valid_yaml return a boolean and never
\* raise for every file state (missing, zero-byte, well-formed, malformed,
\* not decodable as text, unreadable), and modify nothing; _is_valid_yaml is
\* True only if the file exists, is non-empty and parses.
IsValidatorCall == last.op \in {"is_file_not_empty", "is_valid_yaml"}
Validated == fs[<<last.stem, last.reason>>]

C34_ValidatorTotal ==
    IsValidatorCall =>
      /\ ~last.raised
      /\ last.ret \in BOOLEAN
      /\ last.pre = <<LastDec, LastEnc>>
      /\ (last.op = "is_valid_yaml" /\ last.ret) => WellFormed(Validated)

\* the same, for the files that can be decoded as UTF-8
ValidatorTotalOnText ==
    (IsValidatorCall /\ Validated.data # "undec") =>
      /\ ~last.raised
      /\ last.ret \in BOOLEAN
      /\ last.pre = <<LastDec, LastEnc>>
      /\ (last.op = "is_valid_yaml" /\ last.ret) => WellFormed(Validated)
      /\ (last.op = "is_valid_yaml" /\ WellFormed(Validated)) => last.ret

\* ------------------------------------------- properties of the middleware
\* C35: every request whose path starts with /health/ and whose client
\* address is in none of 10/8, 172.16/12, 192.168/16 and 127/8 is answered
\* 403 Forbidden and never reaches the application, whatever its other
\* headers; requests to other paths are always passed through.
Answered == last.op = "middleware"
HealthPath == StartsWith(last.request.path, HealthPrefix)
ClientIsPrivate == is_allowed_ip(get_client_ip(last.request.META))
SaysElb == Contains(MetaGet(last.request.META.user_agent, <<>>), ElbMarker)

C35_HealthRestricted ==
    Answered =>
      /\ (HealthPath /\ ~ClientIsPrivate) =>
           (last.response = "forbidden" /\ ~last.reached)
      /\ ~HealthPath => (last.response = "application" /\ last.reached)

\* the restriction holds for the requests that do not claim to be the load
\* balancer's health checker
HealthRestrictedUnlessElb ==
    Answered =>
      /\ (HealthPath /\ ~ClientIsPrivate /\ ~SaysElb) =>
           (last.response = "forbidden" /\ ~last.reached)
      /\ (HealthPath /\ (ClientIsPrivate \/ SaysElb)) =>
           (last.response = "application" /\ last.reached)
      /\ ~HealthPath => (last.response = "application" /\ last.reached)

\* ------------------------------------- properties of the runner's failures
\* C36: if _encrypt_file or _decrypt_file returns failure, a file that
\* existed at the target path before the call still exists with its previous
\* content.
TargetKept(before, after) ==
    before.exists => (after.exists /\ after.data = before.data)

C36_TargetKeptOnFailure ==
    /\ (last.op = "encrypt_file" /\ ~last.ret) => TargetKept(last.pre[2], LastEnc)
    /\ (last.op = "decrypt_file" /\ ~last.ret) => TargetKept(last.pre[1], LastDec)

\* the target is kept when the tool itself failed: nothing is written then
TargetKeptWhenToolFails ==
    /\ (last.op = "encrypt_file" /\ ~last.ret /\ ToolFailed(last.run))
         => last.pre[2] = LastEnc
    /\ (last.op = "decrypt_file" /\ ~last.ret /\ ToolFailed(last.run))
         => last.pre[1] = LastDec

\* ------------------------------------------- properties of the export steps
ExportReturned == ExportAt("returned")

\* the steps add up to the call as the command line makes it
StepsAgree ==
    ExportReturned =>
      LET res == ToActFormat(fs[SecretsFile], ActSection, last.run, last.w,
                             last.ch, last.pre, now)
      IN res.ret = last.ret /\ res.out = out

\* C37: in every reachable state of to_act_format in which the output file
\* contains exported secret content, its permissions are owner-read/write
\* only, including when the call fails part-way.
HoldsExport ==
    /\ last.op = "to_act_format" /\ last.at \in {"written", "returned"}
    /\ out.exists /\ Len(last.text) > 0 /\ out.data = last.text

C37_NoExposure == HoldsExport => out.mode = "0600"

\* the exported content is owner-only once the call has returned True
ExposureEndsOnSuccess ==
    (HoldsExport /\ ExportReturned /\ last.ret) => out.mode = "0600"

\* C40: when to_act_format returns False because the secrets file is
\* missing, the decryption failed or timed out, or the document could not be
\* converted, the output file is neither created nor modified.
FailedBeforeWriting ==
    ExportReturned /\ ~last.ret /\ last.why \in {"missing", "decrypt", "convert"}

C40_NoArtifactOnFailure == FailedBeforeWriting => out = last.pre

C40_Witness ==
    /\ FailedBeforeWriting /\ last.why = "decrypt" /\ last.run = Timeout
    /\ last.pre.exists /\ last.pre.data = OldText /\ out = last.pre

\* the three causes are reached, with and without an output file before
MissingSecretsNoArtifact ==
    FailedBeforeWriting /\ last.why = "missing" /\ ~last.pre.exists /\ ~out.exists
UnconvertibleNoArtifact ==
    FailedBeforeWriting /\ last.why = "convert" /\ last.pre.exists /\ out = last.pre

\* ------------------------------------------------ properties of the sources
\* C38: _should_encrypt never creates, modifies or deletes the plaintext or
\* the ciphertext; _encrypt_file never modifies the plaintext; _decrypt_file
\* and the comparison decryption never modify the ciphertext.
\* a direct call has just returned
Called(op) == last' # last /\ last'.op = op
\* the pool thread of task i has just run the task to its return
TaskRan(i) == futures[i].st = "running" /\ futures'[i].st = "done"
Kept(p) == fs'[p] = fs[p]

SourcesUntouchedStep ==
    /\ Called("should_encrypt") =>
         Kept(<<last'.stem, "dec">>) /\ Kept(<<last'.stem, "enc">>)
    /\ Called("encrypt_file") => Kept(<<last'.stem, "dec">>)
    /\ Called("decrypt_file") => Kept(<<last'.stem, "enc">>)
    /\ (pc = "loop" /\ cmd = "encrypt" /\ files # <<>> /\ files' = Tail(files))
         => fs' = fs
    /\ (cmd \in {"encrypt", "decrypt"} /\ Len(futures') = Len(futures)) =>
         \A i \in 1..Len(futures) : TaskRan(i) => Kept(futures[i].src)

C38_SourcesUntouched == [][SourcesUntouchedStep]_vars

\* ------------------------------------------------ properties of cleanup
\* C39: cleanup() removes AWS_PROFILE only when its current value equals this
\* wrapper's profile, and otherwise leaves the environment unchanged; with two
\* live wrappers of different profiles, cleanup of the first does not remove
\* the second's profile; a pre-existing AWS_PROFILE value is never restored.
CleanedUp == last.op = "cleanup"
OthersProfile(p) ==
    \E j \in DOMAIN wrappers : j # last.w /\ wrappers[j].aws_profile = p

C39_CleanupScope ==
    CleanedUp =>
      /\ last.before = last.aws_profile => env = "unset"
      /\ last.before # last.aws_profile => env = last.before
      /\ (last.before # last.aws_profile /\ OthersProfile(last.before))
           => env = last.before
      /\ (last.first # "unset" /\ last.first # last.before) => env # last.first

C39_Witness ==
    /\ CleanedUp /\ Len(wrappers) = 2 /\ last.w = 1
    /\ wrappers[1].aws_profile # wrappers[2].aws_profile
    /\ last.before = wrappers[2].aws_profile /\ env = wrappers[2].aws_profile
    /\ last.first = "other"

\* the wrapper's own profile is removed, and the value that was there before
\* the wrapper was constructed is not put back
OwnProfileRemoved ==
    /\ CleanedUp /\ last.before = last.aws_profile /\ env = "unset"
    /\ last.first = "other"

====
